---- MODULE Spec2Model ----
(***************************************************************************)
(* Model of ovh-ikvm-mcp's remote-framebuffer acquisition layer:           *)
(*   - the RFB (VNC) client of src/vnc/rfb-client.ts and the rectangle     *)
(*     decoders of src/vnc/encodings.ts,                                   *)
(*   - the IVTP client (captureVideoFrame) of src/kvm/screenshot.ts.       *)
(* Bytes are integers 0..255, buffers are sequences of bytes, and offsets  *)
(* are the 0-based offsets of the source.                                  *)
(***************************************************************************)
EXTENDS Integers, Sequences, FiniteSets, TLC

\* ------------------------------------------------------------------ bounds
\* Largest framebuffer width and height a server announces.
MaxDim == 2
\* Largest number of rectangles in one FramebufferUpdate.
MaxRects == 2
\* Largest number of capture() calls on one client.
MaxCaptures == 2
\* The readTimeout option of the client, in ticks of the clock.
ReadTimeout == 2
\* The time at which the clock stops.
MaxTime == 4
\* Largest number of disconnect() calls on one client.
MaxDisconnects == 2
\* Largest number of POWER_STATUS packets the BMC sends beyond the answer.
MaxPowerStatus == 2
\* Largest number of fetchDecoder calls.
MaxFetches == 3
\* Largest number of clearDecoderCache calls.
MaxClears == 1
MaxShots == 3
MaxPollAttempts == 3
MaxPngDim == 2
MaxRejected == 1
\* Largest number of sessions the HTTP entry point initialises, of transports
\* it constructs and of requests it is sent.
MaxSessions == 2
MaxTransports == 3
MaxRequests == 5

\* ------------------------------------------------------------- byte helpers
Min(a, b) == IF a < b THEN a ELSE b
Max(a, b) == IF a > b THEN a ELSE b

Take(s, n) == SubSeq(s, 1, Min(n, Len(s)))
Drop(s, n) == SubSeq(s, Min(n, Len(s)) + 1, Len(s))
\* Uint8Array.slice(a, b) / subarray(a, b): 0-based, end exclusive, clamped.
Slice(s, a, b) == SubSeq(s, Min(a, Len(s)) + 1, Min(b, Len(s)))
Zeros(n) == [i \in 1..n |-> 0]

\* 32-bit words are held as the signed values JavaScript's bit operators
\* produce (ToInt32); \div and % floor, so a negative word recurses to -1.
MinInt32 == -2147483647 - 1

RECURSIVE BitAnd(_, _)
\* a & b
BitAnd(a, b) ==
    IF a = 0 \/ b = 0 THEN 0
    ELSE IF a = -1 THEN b
    ELSE IF b = -1 THEN a
    ELSE (a % 2) * (b % 2) + 2 * BitAnd(a \div 2, b \div 2)

RECURSIVE BitOr(_, _)
\* a | b
BitOr(a, b) ==
    IF a = 0 THEN b
    ELSE IF b = 0 THEN a
    ELSE IF a = -1 \/ b = -1 THEN -1
    ELSE Max(a % 2, b % 2) + 2 * BitOr(a \div 2, b \div 2)

RECURSIVE BitXor(_, _)
\* a ^ b
BitXor(a, b) ==
    IF a = 0 THEN b
    ELSE IF b = 0 THEN a
    ELSE IF a = -1 THEN -1 - b
    ELSE IF b = -1 THEN -1 - a
    ELSE (((a % 2) + (b % 2)) % 2) + 2 * BitXor(a \div 2, b \div 2)

\* The signed word whose big-endian bytes are b1 b2 b3 b4.
Int32OfBytes(b1, b2, b3, b4) ==
    (((IF b1 >= 128 THEN b1 - 256 ELSE b1) * 256 + b2) * 256 + b3) * 256 + b4

\* x >> n (arithmetic) for 0 <= n <= 30.
Sar(x, n) == x \div (2 ^ n)

\* x >>> n (logical) for 0 <= n <= 31, as a signed word.
Shr(x, n) ==
    IF n = 0 THEN x
    ELSE IF x >= 0 THEN (IF n = 31 THEN 0 ELSE x \div (2 ^ n))
    ELSE IF n = 31 THEN 1
    ELSE IF n = 1 THEN ((x \div 2) + 2147483647) + 1
    ELSE (x \div (2 ^ n)) + (2 ^ (32 - n))

\* x << n for 0 <= n <= 31, as a signed word.
Shl(x, n) ==
    IF n = 0 THEN x
    ELSE LET k == 32 - n                       \* the bits of x that survive
             half == 2 ^ (k - 1)
             low == IF k = 31
                    THEN (IF x >= 0 THEN x ELSE (x + 2147483647) + 1)
                    ELSE x % (2 ^ k)
             top == low \div half              \* becomes the sign bit
             rest == low % half
         IN  IF top = 1
             THEN (IF n = 31 THEN MinInt32 ELSE MinInt32 + rest * (2 ^ n))
             ELSE (IF n = 31 THEN 0 ELSE rest * (2 ^ n))

\* DataView big-endian accessors (the RFB wire order), 0-based offset o. A
\* Uint32 of 2^31 or more is outside the model's integers.
getUint16(b, o) == b[o + 1] * 256 + b[o + 2]
getUint32(b, o) == ((b[o + 1] * 256 + b[o + 2]) * 256 + b[o + 3]) * 256 + b[o + 4]
getInt32(b, o) == Int32OfBytes(b[o + 1], b[o + 2], b[o + 3], b[o + 4])
setUint16(n) == << (n \div 256) % 256, n % 256 >>
setUint32(n) == << (n \div 16777216) % 256, (n \div 65536) % 256, (n \div 256) % 256, n % 256 >>
setInt32(n) == setUint32(n)

RECURSIVE Concat(_)
\* Buffer.concat(chunks): the chunks one after the other.
Concat(chunks) == IF chunks = <<>> THEN <<>> ELSE Head(chunks) \o Concat(Tail(chunks))

\* -------------------------------------------------------------- RFB types
SecurityType == [None |-> 1, VncAuth |-> 2]
EncodingType == [Raw |-> 0, CopyRect |-> 1]
ServerMessageType == [FramebufferUpdate |-> 0, SetColourMapEntries |-> 1, Bell |-> 2, ServerCutText |-> 3]
ClientMessageType == [SetPixelFormat |-> 0, SetEncodings |-> 2, FramebufferUpdateRequest |-> 3]

PIXEL_FORMAT_RGBA ==
    [bitsPerPixel |-> 32, depth |-> 24, bigEndian |-> FALSE, trueColor |-> TRUE,
     redMax |-> 255, greenMax |-> 255, blueMax |-> 255,
     redShift |-> 0, greenShift |-> 8, blueShift |-> 16]

\* ---------------------------------------------------- typed-array primitives
\* A copyWithin that clamps nothing and grows the array to take the bytes.
copyWithinUnclamped(buf, target, start, end) ==
    [k \in 1..Max(Len(buf), target + (end - start)) |->
        IF k - 1 >= target /\ k - 1 < target + (end - start)
        THEN (IF start + (k - 1 - target) < Len(buf) THEN buf[start + (k - 1 - target) + 1] ELSE 0)
        ELSE buf[k]]

\* Uint8Array.prototype.copyWithin(target, start, end): the bytes are moved as
\* if through a temporary copy, and every index is clamped to the length.
copyWithin(buf, target, start, end) ==
    LET len == Len(buf)
        to == Min(target, len)
        from == Min(start, len)
        final == Min(end, len)
        count == Min(final - from, len - to)
    IN  [k \in 1..len |->
            IF k - 1 >= to /\ k - 1 < to + count THEN buf[from + (k - 1 - to) + 1] ELSE buf[k]]

\* Uint8Array.prototype.set(source, offset) throws a RangeError when the source
\* does not fit; otherwise it overwrites Len(source) bytes at offset.
setThrows(buf, source, offset) == offset + Len(source) > Len(buf)
set(buf, source, offset) ==
    [k \in 1..Len(buf) |->
        IF k - 1 >= offset /\ k - 1 < offset + Len(source) THEN source[k - offset] ELSE buf[k]]

\* rect.data[i]: a read past the end is undefined, which the bit operators read as 0.
At(data, i) == IF i < Len(data) THEN data[i + 1] ELSE 0

\* ------------------------------------------------------------- encodings.ts
\* A channel read without its shift.
ChannelUnshifted(pixel, shift, max) ==
    LET v == BitAnd(pixel, max)
    IN  IF max = 0 THEN 0 ELSE ((v * 255) \div max) % 256

\* One channel of decodeRaw: ((pixel >> shift) & max) * (255 / max), stored
\* into a Uint8Array. The client only ever passes PIXEL_FORMAT_RGBA (max 255).
Channel(pixel, shift, max) ==
    LET v == BitAnd(Sar(pixel, shift % 32), max)
    IN  IF max = 0 THEN 0 ELSE ((v * 255) \div max) % 256

\* The wire value of pixel i of a Raw rectangle.
RawPixel(data, i, serverFormat) ==
    LET bytesPerPixel == serverFormat.bitsPerPixel \div 8
        srcOffset == i * bytesPerPixel
        d(k) == At(data, srcOffset + k)
    IN  IF bytesPerPixel = 4
        THEN IF serverFormat.bigEndian
             THEN Int32OfBytes(d(0), d(1), d(2), d(3))
             ELSE Int32OfBytes(d(3), d(2), d(1), d(0))
        ELSE IF bytesPerPixel = 2
        THEN IF serverFormat.bigEndian THEN d(0) * 256 + d(1) ELSE d(0) + d(1) * 256
        ELSE d(0)

decodeRaw(rect, serverFormat) ==
    LET pixelCount == rect.width * rect.height
    IN  [k \in 1..(pixelCount * 4) |->
            LET i == (k - 1) \div 4
                c == (k - 1) % 4
                pixel == RawPixel(rect.data, i, serverFormat)
            IN  CASE c = 0 -> Channel(pixel, serverFormat.redShift, serverFormat.redMax)
                  [] c = 1 -> Channel(pixel, serverFormat.greenShift, serverFormat.greenMax)
                  [] c = 2 -> Channel(pixel, serverFormat.blueShift, serverFormat.blueMax)
                  [] OTHER -> 255]

RECURSIVE CopyRows(_, _, _, _, _, _)
\* The row loop of decodeCopyRect from row y on, on the buffer as it is so far.
CopyRows(rect, framebuffer, fbWidth, srcX, srcY, y) ==
    IF y >= rect.height THEN framebuffer
    ELSE LET srcOffset == ((srcY + y) * fbWidth + srcX) * 4
             dstOffset == ((rect.y + y) * fbWidth + rect.x) * 4
         IN  CopyRows(rect,
                      copyWithin(framebuffer, dstOffset, srcOffset, srcOffset + rect.width * 4),
                      fbWidth, srcX, srcY, y + 1)

decodeCopyRect(rect, framebuffer, fbWidth) ==
    LET srcX == BitOr(At(rect.data, 0) * 256, At(rect.data, 1))
        srcY == BitOr(At(rect.data, 2) * 256, At(rect.data, 3))
    IN  CopyRows(rect, framebuffer, fbWidth, srcX, srcY, 0)

RECURSIVE BlitRows(_, _, _, _, _)
\* The blit loop of receiveRect (Raw) from row `row` on: the buffer reached and
\* whether framebuffer.set threw, which leaves the rows before it applied.
BlitRows(fb, rgba, rect, fbWidth, row) ==
    IF row >= rect.height THEN [pixels |-> fb, threw |-> FALSE]
    ELSE LET srcOffset == row * rect.width * 4
             dstOffset == ((rect.y + row) * fbWidth + rect.x) * 4
             line == Slice(rgba, srcOffset, srcOffset + rect.width * 4)
         IN  IF setThrows(fb, line, dstOffset)
             THEN [pixels |-> fb, threw |-> TRUE]
             ELSE BlitRows(set(fb, line, dstOffset), rgba, rect, fbWidth, row + 1)

\* ------------------------------------------------------------------- state
VARIABLES
    \* RfbClient (src/vnc/rfb-client.ts)
    ws,              \* this.ws: "null" or "ws" (the socket wsConnect created)
    serverInit,      \* this.serverInit: NoServerInit or the parsed ServerInit
    framebuffer,     \* this.framebuffer: [isNull, pixels]
    receiveBuffer,   \* this.receiveBuffer
    options,         \* this.options: [password]
    rfbPc,           \* the await at which connect()/capture() is suspended
    rfbErr,          \* the error connect()/capture() rejected with
    loc,             \* locals that live across awaits
    rfbOut,          \* the messages the client has passed to ws.send, in order
    captures,        \* the number of capture() calls made
    \* the WebSocket and the RFB server at its far end
    sock,            \* the socket: "none", "connecting", "open", "closed"
    wire,            \* transport messages sent by the server, not yet delivered
    srv,             \* the server: [state, seen, cv, format, left, pending]
    cfg,             \* what the server and the transport are set up to do
    receiveResolve,  \* this.receiveResolve is set (TRUE) or null (FALSE)
    clock,           \* [running, now]: the time, in runs that keep it
    timers,          \* the times at which timers of waits that are over still fire
    shot,            \* the position of captureScreenshot, "none" without one
    calls,           \* [disconnect, close, cut]: calls made by the caller and of ws.close()
    \* captureVideoFrame (src/kvm/screenshot.ts) and the BMC at its far end
    cvf,             \* the locals of the captureVideoFrame closure, what it sent, its promise
    bsock,           \* the KVM socket: "none", "connecting", "open", "closing", "closed"
    bwire,           \* transport messages sent by the BMC, not yet delivered
    bmc,             \* the BMC: [seen, frameDue, started, fsent]
    bcfg,            \* what the BMC is set up to answer
    bout,            \* every byte the BMC has sent
    \* one call of decodeCopyRect on its own
    copyIn,          \* [framebuffer, fbWidth, rect] the call gets
    copyOut,         \* the framebuffer after the call, <<>> before it
    \* the decoder cache (src/kvm/decoder-fetcher.ts)
    decoderCache,    \* decoderCache: the factory cached for each host, NoFactory for none
    fetches,         \* the fetchDecoder calls made, in the order they were made
    made,            \* the number of factories created
    events,          \* the number of calls, returns and clears so far
    clears,          \* the events at which clearDecoderCache was called
    \* captureKvmScreenshot callers and the BMC's token endpoint
    kshot,           \* the captureKvmScreenshot call of each caller: [pc, session, presented, err]
    bmcApi,          \* /api/kvm/token: [issued, valid], the tokens issued and the valid one
    \* one call of desEncryptChallenge on its own
    desIn,           \* [challenge, password] the call gets
    desOut,          \* the response it returns, <<>> before it
    \* OvhProvider (src/providers/ovh/provider.ts)
    pollMaxAttempts, \* this.pollMaxAttempts
    initialized,     \* this.initialized
    ovh,             \* one getScreenshot call: [pc, i, requests, seen, wait, access, capture, err]
    \* the get_screenshot tool (src/mcp/server.ts)
    tool,            \* one call of the tool: [pc, raw, png, result]
    \* RfbClient.capture called without a ServerInit
    rejected,        \* the number of capture() calls that threw "Not connected"
    \* the HTTP entry point (index.ts)
    http             \* [transports, made, n, last]: the session map, the transports
                     \* constructed, the requests received and the last one

rfbVars == <<ws, serverInit, framebuffer, receiveBuffer, options, rfbPc, rfbErr, loc, rfbOut,
             captures, sock, wire, srv, cfg, receiveResolve, clock, timers, shot, calls>>
ivtpVars == <<cvf, bsock, bwire, bmc, bcfg, bout>>
copyVars == <<copyIn, copyOut>>
decVars == <<decoderCache, fetches, made, events, clears>>
tokVars == <<kshot, bmcApi>>
desVars == <<desIn, desOut>>
ovhVars == <<pollMaxAttempts, initialized, ovh>>
toolVars == <<tool>>
capVars == <<rejected>>
httpVars == <<http>>
auxVars == <<decVars, tokVars, desVars, ovhVars, toolVars, capVars, httpVars>>
vars == <<rfbVars, ivtpVars, copyVars, auxVars, clock, timers, shot, calls, receiveResolve>>

NoServerInit == [isNull |-> TRUE, width |-> 0, height |-> 0, pixelFormat |-> PIXEL_FORMAT_RGBA, name |-> <<>>]
NoFramebuffer == [isNull |-> TRUE, pixels |-> <<>>]
NoRect == [x |-> 0, y |-> 0, width |-> 0, height |-> 0, encoding |-> 0, data |-> <<>>]
\* The locals of waitForBytes: its deadline, the time its timer is set for and
\* whether it is suspended on its promise.
NoWait == [deadline |-> 0, timerAt |-> 0, asleep |-> FALSE]
NoLoc == [serverMajor |-> 0, serverMinor |-> 0, types |-> <<>>, len |-> 0, header |-> <<>>,
          numRects |-> 0, i |-> 0, rect |-> NoRect, looped |-> FALSE, deadline |-> 0,
          wait |-> NoWait]

\* --------------------------------------------------- version line (12 bytes)
Digits3(n) == <<48 + ((n \div 100) % 10), 48 + ((n \div 10) % 10), 48 + (n % 10)>>
\* "RFB xxx.yyy\n"
VersionLine(major, minor) == <<82, 70, 66, 32>> \o Digits3(major) \o <<46>> \o Digits3(minor) \o <<10>>
IsDigit(c) == c \in 48..57
\* versionStr.match(/^RFB (\d{3})\.(\d{3})\n$/)
versionMatch(b) ==
    /\ Len(b) = 12
    /\ SubSeq(b, 1, 4) = <<82, 70, 66, 32>>
    /\ \A k \in {5, 6, 7, 9, 10, 11} : IsDigit(b[k])
    /\ b[8] = 46
    /\ b[12] = 10
\* Number.parseInt of the three digits starting at 1-based position k.
parseInt3(b, k) == (b[k] - 48) * 100 + (b[k + 1] - 48) * 10 + (b[k + 2] - 48)

\* A reply that answers 3.7 with 3.8.
clientVersionEager(serverMajor, serverMinor) ==
    IF serverMajor = 3 /\ serverMinor >= 7 THEN VersionLine(3, 8) ELSE VersionLine(3, 3)

\* The reply handshake() chooses for a server version (lines 176-183).
clientVersion(serverMajor, serverMinor) ==
    IF serverMajor = 3 /\ serverMinor >= 8 THEN VersionLine(3, 8)
    ELSE IF serverMajor = 3 /\ serverMinor >= 7 THEN VersionLine(3, 7)
    ELSE VersionLine(3, 3)

\* Which negotiation handshake() runs (line 187).
usesSecurity38(serverMajor, serverMinor) == serverMajor = 3 /\ serverMinor >= 7

\* ------------------------------------------------ RfbClient: reading, sending
\* The number of bytes the readBytes at each await asks waitForBytes for; -1
\* where the client is not in readBytes.
awaitedAt(pc, l) ==
    CASE pc = "handshake_version" -> 12
      [] pc \in {"sec38_count", "update_type"} -> 1
      [] pc \in {"sec38_refusedLen", "sec38_result", "sec38_failLen", "sec33_type",
                    "sec33_refusedLen", "rect_copy"} -> 4
      [] pc \in {"sec38_refused", "sec38_types", "sec38_fail", "sec33_refused",
                    "serverInit_name", "rect_raw", "colourMap_body", "cutText_body"} -> l.len
      [] pc = "vncAuth_challenge" -> 16
      [] pc = "serverInit_header" -> 24
      [] pc = "update_header" -> 3
      [] pc = "rect_header" -> 12
      [] pc = "colourMap_header" -> 5
      [] pc = "cutText_header" -> 7
      [] OTHER -> -1

awaited == awaitedAt(rfbPc, loc)

\* What a read timeout rejects the call with: while the failure reason of a
\* SecurityResult is read, the catch turns every error into the authentication
\* failure (lines 238-246).
readTimeoutError(pc) ==
    IF pc \in {"sec38_failLen", "sec38_fail"} THEN "Authentication failed" ELSE "Read timeout"

\* waitForBytes(n) has returned: n bytes are buffered and the call is not
\* suspended on a promise that nothing has settled.
CanRead(n) == Len(receiveBuffer) >= n /\ ~loc.wait.asleep

\* A timer set for the whole timeout again.
remainingFresh(deadline) == options.readTimeout

\* remaining = deadline - Date.now() (line 132).
remaining(deadline) == deadline - clock.now

\* waitForBytes(n) up to its first await, with buf buffered: it returns at once
\* when buf holds n bytes, and otherwise sets this.receiveResolve and a timer
\* for the time remaining to its deadline (readTimeout is positive). n < 0
\* stands for no readBytes being started.
waitForBytes(n, buf) ==
    LET deadline == clock.now + options.readTimeout
    IN  IF n < 0 \/ Len(buf) >= n
        THEN [wait |-> NoWait, resolve |-> receiveResolve]
        ELSE [wait |-> [deadline |-> deadline, timerAt |-> clock.now + remaining(deadline),
                        asleep |-> TRUE],
              resolve |-> TRUE]
\* readBytes(n) once waitForBytes(n) has returned: the first n buffered bytes.
readBytes(n) == SubSeq(receiveBuffer, 1, n)

\* The suspended call has read n bytes, passes msgs to send() and suspends at
\* the await p with locals l, where the next readBytes begins. send() throws
\* when this.ws is null.
Proceed(n, msgs, p, l) ==
    LET rest == Drop(receiveBuffer, n)
        w == waitForBytes(awaitedAt(p, l), rest)
    IN  /\ receiveBuffer' = rest
        /\ IF msgs # <<>> /\ ws = "null"
           THEN /\ rfbPc' = "failed"
                /\ rfbErr' = "WebSocket not connected"
                /\ UNCHANGED <<rfbOut, loc, receiveResolve>>
           ELSE /\ rfbPc' = p
                /\ rfbErr' = rfbErr
                /\ rfbOut' = rfbOut \o msgs
                /\ loc' = [l EXCEPT !.wait = w.wait]
                /\ receiveResolve' = w.resolve

\* The suspended call has read n bytes and throws err.
Throw(n, err, l) ==
    /\ receiveBuffer' = Drop(receiveBuffer, n)
    /\ rfbPc' = "failed"
    /\ rfbErr' = err
    /\ loc' = l
    /\ UNCHANGED <<rfbOut, receiveResolve>>

ClientInit == <<1>>

\* ------------------------------------------------------ RfbClient.handshake
handshake_version ==
    /\ rfbPc = "handshake_version"
    /\ CanRead(12)
    /\ LET versionBytes == readBytes(12)
       IN  IF ~versionMatch(versionBytes)
           THEN Throw(12, "Invalid RFB version string", loc)
           ELSE LET serverMajor == parseInt3(versionBytes, 5)
                    serverMinor == parseInt3(versionBytes, 9)
                IN  Proceed(12, <<clientVersion(serverMajor, serverMinor)>>,
                            IF usesSecurity38(serverMajor, serverMinor)
                            THEN "sec38_count" ELSE "sec33_type",
                            [loc EXCEPT !.serverMajor = serverMajor, !.serverMinor = serverMinor])
    /\ UNCHANGED <<ws, serverInit, framebuffer, options, captures, sock, wire, srv, cfg, ivtpVars, copyVars, auxVars, clock, timers, shot, calls>>

negotiateSecurity38_count ==
    /\ rfbPc = "sec38_count"
    /\ CanRead(1)
    /\ LET count == readBytes(1)[1]
       IN  IF count = 0
           THEN Proceed(1, <<>>, "sec38_refusedLen", loc)
           ELSE Proceed(1, <<>>, "sec38_types", [loc EXCEPT !.len = count])
    /\ UNCHANGED <<ws, serverInit, framebuffer, options, captures, sock, wire, srv, cfg, ivtpVars, copyVars, auxVars, clock, timers, shot, calls>>

negotiateSecurity38_refusedLen ==
    /\ rfbPc = "sec38_refusedLen"
    /\ CanRead(4)
    /\ Proceed(4, <<>>, "sec38_refused", [loc EXCEPT !.len = getUint32(readBytes(4), 0)])
    /\ UNCHANGED <<ws, serverInit, framebuffer, options, captures, sock, wire, srv, cfg, ivtpVars, copyVars, auxVars, clock, timers, shot, calls>>

negotiateSecurity38_refused ==
    /\ rfbPc = "sec38_refused"
    /\ CanRead(loc.len)
    /\ Throw(loc.len, "Server refused connection", loc)
    /\ UNCHANGED <<ws, serverInit, framebuffer, options, captures, sock, wire, srv, cfg, ivtpVars, copyVars, auxVars, clock, timers, shot, calls>>

\* A selection that takes VncAuth ahead of None when a password is at hand.
selectSecurityAuthFirst(types, password) ==
    LET has(t) == \E k \in 1..Len(types) : types[k] = t
    IN  IF has(SecurityType.VncAuth) /\ password # <<>> THEN [type |-> SecurityType.VncAuth, err |-> ""]
        ELSE IF has(SecurityType.None) THEN [type |-> SecurityType.None, err |-> ""]
        ELSE [type |-> 0, err |-> "No supported security types"]

\* The selection of negotiateSecurity38 among the offered types (lines 222-232):
\* the type selected, or 0 and the error thrown.
selectSecurity(types, password) ==
    LET has(t) == \E k \in 1..Len(types) : types[k] = t
    IN  IF has(SecurityType.None) THEN [type |-> SecurityType.None, err |-> ""]
        ELSE IF has(SecurityType.VncAuth)
        THEN IF password = <<>>
             THEN [type |-> 0,
                   err |-> "Server requires VNC authentication but no password provided"]
             ELSE [type |-> SecurityType.VncAuth, err |-> ""]
        ELSE [type |-> 0, err |-> "No supported security types"]

\* The types array is read and one type is selected and sent (lines 218-232).
negotiateSecurity38_types ==
    /\ rfbPc = "sec38_types"
    /\ CanRead(loc.len)
    /\ LET types == readBytes(loc.len)
           sel == selectSecurity(types, options.password)
           l == [loc EXCEPT !.types = types]
       IN  IF sel.type = 0
           THEN Throw(loc.len, sel.err, l)
           ELSE Proceed(loc.len, << <<sel.type>> >>,
                        IF sel.type = SecurityType.VncAuth THEN "vncAuth_challenge"
                        ELSE "sec38_result", l)
    /\ UNCHANGED <<ws, serverInit, framebuffer, options, captures, sock, wire, srv, cfg, ivtpVars, copyVars, auxVars, clock, timers, shot, calls>>

\* A SecurityResult that is taken for success whatever it is.
authFailedNever(result) == FALSE

\* if (result !== 0)
authFailed(result) == result # 0

\* SecurityResult is read after either selection (lines 234-247).
negotiateSecurity38_result ==
    /\ rfbPc = "sec38_result"
    /\ CanRead(4)
    /\ LET result == getUint32(readBytes(4), 0)
       IN  IF authFailed(result)
           THEN Proceed(4, <<>>, "sec38_failLen", loc)
           ELSE Proceed(4, <<ClientInit>>, "serverInit_header", loc)
    /\ UNCHANGED <<ws, serverInit, framebuffer, options, captures, sock, wire, srv, cfg, ivtpVars, copyVars, auxVars, clock, timers, shot, calls>>

negotiateSecurity38_failLen ==
    /\ rfbPc = "sec38_failLen"
    /\ CanRead(4)
    /\ Proceed(4, <<>>, "sec38_fail", [loc EXCEPT !.len = getUint32(readBytes(4), 0)])
    /\ UNCHANGED <<ws, serverInit, framebuffer, options, captures, sock, wire, srv, cfg, ivtpVars, copyVars, auxVars, clock, timers, shot, calls>>

negotiateSecurity38_fail ==
    /\ rfbPc = "sec38_fail"
    /\ CanRead(loc.len)
    /\ Throw(loc.len, "Authentication failed", loc)
    /\ UNCHANGED <<ws, serverInit, framebuffer, options, captures, sock, wire, srv, cfg, ivtpVars, copyVars, auxVars, clock, timers, shot, calls>>

\* The single u32 security type of protocol 3.3 (lines 250-269).
negotiateSecurity33_type ==
    /\ rfbPc = "sec33_type"
    /\ CanRead(4)
    /\ LET secType == getUint32(readBytes(4), 0)
           l == [loc EXCEPT !.types = <<secType>>]
       IN  IF secType = 0
           THEN Proceed(4, <<>>, "sec33_refusedLen", l)
           ELSE IF secType = SecurityType.VncAuth
           THEN IF options.password = <<>>
                THEN Throw(4, "Server requires VNC authentication but no password provided", l)
                ELSE Proceed(4, <<>>, "vncAuth_challenge", l)
           ELSE Proceed(4, <<ClientInit>>, "serverInit_header", l)
    /\ UNCHANGED <<ws, serverInit, framebuffer, options, captures, sock, wire, srv, cfg, ivtpVars, copyVars, auxVars, clock, timers, shot, calls>>

negotiateSecurity33_refusedLen ==
    /\ rfbPc = "sec33_refusedLen"
    /\ CanRead(4)
    /\ Proceed(4, <<>>, "sec33_refused", [loc EXCEPT !.len = getUint32(readBytes(4), 0)])
    /\ UNCHANGED <<ws, serverInit, framebuffer, options, captures, sock, wire, srv, cfg, ivtpVars, copyVars, auxVars, clock, timers, shot, calls>>

negotiateSecurity33_refused ==
    /\ rfbPc = "sec33_refused"
    /\ CanRead(loc.len)
    /\ Throw(loc.len, "Server refused", loc)
    /\ UNCHANGED <<ws, serverInit, framebuffer, options, captures, sock, wire, srv, cfg, ivtpVars, copyVars, auxVars, clock, timers, shot, calls>>

\* ------------------------------------------- DES for VNC authentication
\* reverseBits(input): the low 8 bits of input, reversed.
reverseBits(input) ==
    LET bit(k) == (input \div (2 ^ k)) % 2
    IN  bit(0) * 128 + bit(1) * 64 + bit(2) * 32 + bit(3) * 16
        + bit(4) * 8 + bit(5) * 4 + bit(6) * 2 + bit(7)

SHIFTS ==
    <<
    1, 1, 2, 2, 2, 2, 2, 2, 1, 2, 2, 2, 2, 2, 2, 1
    >>

PC1C ==
    <<
    7, 15, 23, 31, 39, 47, 55, 63, 6, 14, 22, 30, 38, 46, 54, 62, 5, 13, 21, 29, 37, 45,
    53, 61, 4, 12, 20, 28
    >>

PC1D ==
    <<
    1, 9, 17, 25, 33, 41, 49, 57, 2, 10, 18, 26, 34, 42, 50, 58, 3, 11, 19, 27, 35, 43, 51,
    59, 36, 44, 52, 60
    >>

PC2 ==
    <<
    13, 16, 10, 23, 0, 4, 2, 27, 14, 5, 20, 9, 22, 18, 11, 3, 25, 7, 15, 6, 26, 19, 12, 1,
    40, 51, 30, 36, 46, 54, 29, 39, 50, 44, 32, 47, 43, 48, 38, 55, 33, 52, 45, 41, 49, 35,
    28, 31
    >>

SP1 ==
    <<
    16843776, 0, 65536, 16843780, 16842756, 66564, 4, 65536, 1024, 16843776, 16843780,
    1024, 16778244, 16842756, 16777216, 4, 1028, 16778240, 16778240, 66560, 66560,
    16842752, 16842752, 16778244, 65540, 16777220, 16777220, 65540, 0, 1028, 66564,
    16777216, 65536, 16843780, 4, 16842752, 16843776, 16777216, 16777216, 1024, 16842756,
    65536, 66560, 16777220, 1024, 4, 16778244, 66564, 16843780, 65540, 16842752, 16778244,
    16777220, 1028, 66564, 16843776, 1028, 16778240, 16778240, 0, 65540, 66560, 0, 16842756
    >>

SP2 ==
    <<
    (-2146402272), (-2147450880), 32768, 1081376, 1048576, 32, (-2146435040), (-2147450848),
    (-2147483616), (-2146402272), (-2146402304), (-2147483647 - 1), (-2147450880), 1048576, 32, (-2146435040),
    1081344, 1048608, (-2147450848), 0, (-2147483647 - 1), 32768, 1081376, (-2146435072), 1048608,
    (-2147483616), 0, 1081344, 32800, (-2146402304), (-2146435072), 32800, 0, 1081376, (-2146435040),
    1048576, (-2147450848), (-2146435072), (-2146402304), 32768, (-2146435072), (-2147450880), 32,
    (-2146402272), 1081376, 32, 32768, (-2147483647 - 1), 32800, (-2146402304), 1048576, (-2147483616),
    1048608, (-2147450848), (-2147483616), 1048608, 1081344, 0, (-2147450880), 32800, (-2147483647 - 1),
    (-2146435040), (-2146402272), 1081344
    >>

SP3 ==
    <<
    520, 134349312, 0, 134348808, 134218240, 0, 131592, 134218240, 131080, 134217736,
    134217736, 131072, 134349320, 131080, 134348800, 520, 134217728, 8, 134349312, 512,
    131584, 134348800, 134348808, 131592, 134218248, 131584, 131072, 134218248, 8,
    134349320, 512, 134217728, 134349312, 134217728, 131080, 520, 131072, 134349312,
    134218240, 0, 512, 131080, 134349320, 134218240, 134217736, 512, 0, 134348808,
    134218248, 131072, 134217728, 134349320, 8, 131592, 131584, 134217736, 134348800,
    134218248, 520, 134348800, 131592, 8, 134348808, 131584
    >>

SP4 ==
    <<
    8396801, 8321, 8321, 128, 8396928, 8388737, 8388609, 8193, 0, 8396800, 8396800,
    8396929, 129, 0, 8388736, 8388609, 1, 8192, 8388608, 8396801, 128, 8388608, 8193, 8320,
    8388737, 1, 8320, 8388736, 8192, 8396928, 8396929, 129, 8388736, 8388609, 8396800,
    8396929, 129, 0, 0, 8396800, 8320, 8388736, 8388737, 1, 8396801, 8321, 8321, 128,
    8396929, 129, 1, 8192, 8388609, 8193, 8396928, 8388737, 8193, 8320, 8388608, 8396801,
    128, 8388608, 8192, 8396928
    >>

SP5 ==
    <<
    256, 34078976, 34078720, 1107296512, 524288, 256, 1073741824, 34078720, 1074266368,
    524288, 33554688, 1074266368, 1107296512, 1107820544, 524544, 1073741824, 33554432,
    1074266112, 1074266112, 0, 1073742080, 1107820800, 1107820800, 33554688, 1107820544,
    1073742080, 0, 1107296256, 34078976, 33554432, 1107296256, 524544, 524288, 1107296512,
    256, 33554432, 1073741824, 34078720, 1107296512, 1074266368, 33554688, 1073741824,
    1107820544, 34078976, 1074266368, 256, 33554432, 1107820544, 1107820800, 524544,
    1107296256, 1107820800, 34078720, 0, 1074266112, 1107296256, 524544, 33554688,
    1073742080, 524288, 0, 1074266112, 34078976, 1073742080
    >>

SP6 ==
    <<
    536870928, 541065216, 16384, 541081616, 541065216, 16, 541081616, 4194304, 536887296,
    4210704, 4194304, 536870928, 4194320, 536887296, 536870912, 16400, 0, 4194320,
    536887312, 16384, 4210688, 536887312, 16, 541065232, 541065232, 0, 4210704, 541081600,
    16400, 4210688, 541081600, 536870912, 536887296, 16, 541065232, 4210688, 541081616,
    4194304, 16400, 536870928, 4194304, 536887296, 536870912, 16400, 536870928, 541081616,
    4210688, 541065216, 4210704, 541081600, 0, 541065232, 16, 16384, 541065216, 4210704,
    16384, 4194320, 536887312, 0, 541081600, 536870912, 4194320, 536887312
    >>

SP7 ==
    <<
    2097152, 69206018, 67110914, 0, 2048, 67110914, 2099202, 69208064, 69208066, 2097152,
    0, 67108866, 2, 67108864, 69206018, 2050, 67110912, 2099202, 2097154, 67110912,
    67108866, 69206016, 69208064, 2097154, 69206016, 2048, 2050, 69208066, 2099200, 2,
    67108864, 2099200, 67108864, 2099200, 2097152, 67110914, 67110914, 69206018, 69206018,
    2, 2097154, 67108864, 67110912, 2097152, 69208064, 2050, 2099202, 69208064, 2050,
    67108866, 69208066, 69206016, 2099200, 0, 2, 69208066, 0, 2099202, 69206016, 2048,
    67108866, 67110912, 2048, 2097154
    >>

SP8 ==
    <<
    268439616, 4096, 262144, 268701760, 268435456, 268439616, 64, 268435456, 262208,
    268697600, 268701760, 266240, 268701696, 266304, 4096, 64, 268697600, 268435520,
    268439552, 4160, 266240, 262208, 268697664, 268701696, 4160, 0, 0, 268697664,
    268435520, 268439552, 266304, 262144, 266304, 262144, 268701696, 4096, 64, 268697664,
    4096, 266304, 268439552, 64, 268435520, 268697600, 268697664, 268435456, 262144,
    268439616, 0, 268701760, 262208, 268435520, 268697600, 268439552, 268439616, 0,
    268701760, 266240, 266240, 4160, 4160, 262208, 268435456, 268701696
    >>

\* key[bit >>> 3] & (128 >>> (bit & 7)) is non-zero
KeyBit(key, bit) == (key[(bit \div 8) + 1] \div (2 ^ (7 - (bit % 8)))) % 2

\* The PC1 loops of generateKeys: 28 key bits into c (table PC1C) or d (PC1D).
PC1(key, tbl) ==
    LET term(i) == KeyBit(key, tbl[i + 1]) * (2 ^ (27 - i))
        sum[i \in 0..28] == IF i = 0 THEN 0 ELSE sum[i - 1] + term(i - 1)
    IN  sum[28]

\* Bit pos (0 = most significant of 28) of the 28-bit half h.
HalfBit(h, pos) == (h \div (2 ^ (27 - pos))) % 2

\* The PC2 loop of generateKeys for one round: k1 from PC2[0..23] (off = 0),
\* k2 from PC2[24..47] (off = 24).
PC2Word(c, d, off) ==
    LET pick(j) == LET b == PC2[j + off + 1]
                   IN  IF b < 28 THEN HalfBit(c, b) ELSE HalfBit(d, b - 28)
        sum[j \in 0..24] == IF j = 0 THEN 0 ELSE sum[j - 1] + pick(j - 1) * (2 ^ (23 - (j - 1)))
    IN  sum[24]

\* c = ((c << shifts) | (c >>> (28 - shifts))) & 0x0fffffff
Rot28(c, shifts) == BitOr(Shl(c, shifts), Shr(c, 28 - shifts)) % 268435456

RECURSIVE KeyRounds(_, _, _)
\* keys[2i], keys[2i+1] for rounds i..15, as one sequence.
KeyRounds(c, d, i) ==
    IF i >= 16 THEN <<>>
    ELSE LET c2 == Rot28(c, SHIFTS[i + 1])
             d2 == Rot28(d, SHIFTS[i + 1])
         IN  <<PC2Word(c2, d2, 0), PC2Word(c2, d2, 24)>> \o KeyRounds(c2, d2, i + 1)

generateKeys(key) == KeyRounds(PC1(key, PC1C), PC1(key, PC1D), 0)

\* One swap step of the initial and final permutation:
\*   t = ((a >>> n) ^ b) & mask; b ^= t; a ^= t << n
PermStep(a, b, n, mask) ==
    LET t == BitAnd(BitXor(Shr(a, n), b), mask)
    IN  [a |-> BitXor(a, Shl(t, n)), b |-> BitXor(b, t)]

RotL1(x) == BitOr(Shl(x, 1), Shr(x, 31))
RotR1(x) == BitOr(Shr(x, 1), Shl(x, 31))

\* One round of encrypt: the new right half from the halves and the round's two key words.
RoundF(l, r, k1, k2) ==
    LET f1 == BitXor(r, k1)
        rr == BitOr(Shl(r, 28), Shr(r, 4))
        g == BitXor(rr, k2)
        fa == BitOr(BitOr(SP1[(Shr(f1, 24) % 64) + 1], SP3[(Shr(f1, 16) % 64) + 1]),
                    BitOr(SP5[(Shr(f1, 8) % 64) + 1], SP7[(f1 % 64) + 1]))
        fb == BitOr(BitOr(fa, SP2[(Shr(g, 24) % 64) + 1]),
                    BitOr(BitOr(SP4[(Shr(g, 16) % 64) + 1], SP6[(Shr(g, 8) % 64) + 1]),
                          SP8[(g % 64) + 1]))
    IN  BitXor(l, fb)

RECURSIVE Rounds(_, _, _, _)
\* The 16 rounds of encrypt from round i on.
Rounds(l, r, keys, i) ==
    IF i >= 16 THEN [l |-> l, r |-> r]
    ELSE CHOOSE res \in { Rounds(r, nr, keys, i + 1) :
                            nr \in { RoundF(l, r, keys[i * 2 + 1], keys[i * 2 + 2]) } } : TRUE

\* The initial permutation of encrypt, as the pair (l, r).
InitialPerm(l0, r0) ==
    CHOOSE res \in { [l |-> p5.a, r |-> p5.b] :
        p5 \in { PermStep(p4.b, p4.a, 1, 1431655765) :
        p4 \in { PermStep(p3.a, p3.b, 8, 16711935) :
        p3 \in { PermStep(p2.b, p2.a, 2, 858993459) :
        p2 \in { PermStep(p1.a, p1.b, 16, 65535) :
        p1 \in { PermStep(l0, r0, 4, 252645135) } } } } } } : TRUE

\* The final permutation of encrypt, as the pair (l, r).
FinalPerm(l1, r1) ==
    CHOOSE res \in { [l |-> q5.a, r |-> q5.b] :
        q5 \in { PermStep(q4.a, q4.b, 4, 252645135) :
        q4 \in { PermStep(q3.b, q3.a, 16, 65535) :
        q3 \in { PermStep(q2.a, q2.b, 2, 858993459) :
        q2 \in { PermStep(q1.b, q1.a, 8, 16711935) :
        q1 \in { PermStep(l1, r1, 1, 1431655765) } } } } } } : TRUE

\* DesEcb.encrypt: one 8-byte block under the round keys.
encrypt(input, keys) ==
    LET byte(x, i) == Shr(x, 24 - i * 8) % 256
    IN  CHOOSE out \in { <<byte(f.r, 0), byte(f.r, 1), byte(f.r, 2), byte(f.r, 3),
                           byte(f.l, 0), byte(f.l, 1), byte(f.l, 2), byte(f.l, 3)>> :
            f \in { FinalPerm(RotR1(rot.l), RotR1(rot.r)) :
            rot \in { Rounds(RotL1(p.l), RotL1(p.r), keys, 0) :
            p \in { InitialPerm(Int32OfBytes(input[1], input[2], input[3], input[4]),
                                Int32OfBytes(input[5], input[6], input[7], input[8])) } } } } : TRUE

\* desEncryptChallenge: the 16-byte challenge as two ECB blocks under the
\* password, truncated or zero-padded to 8 bytes, each byte bit-reversed.
desEncryptChallenge(challenge, password) ==
    CHOOSE out \in { encrypt(SubSeq(challenge, 1, 8), keys) \o encrypt(SubSeq(challenge, 9, 16), keys) :
        keys \in { generateKeys([i \in 1..8 |-> IF i <= Len(password) THEN reverseBits(password[i]) ELSE 0]) } } : TRUE

\* ------------------------------------------------- RfbClient: after security
\* performVncAuth, then what follows it: SecurityResult for 3.7 and 3.8,
\* ClientInit at once for 3.3 (negotiateSecurity33 returns into handshake).
performVncAuth_challenge ==
    /\ rfbPc = "vncAuth_challenge"
    /\ CanRead(16)
    /\ LET response == desEncryptChallenge(readBytes(16), options.password)
       IN  IF usesSecurity38(loc.serverMajor, loc.serverMinor)
           THEN Proceed(16, <<response>>, "sec38_result", loc)
           ELSE Proceed(16, <<response, ClientInit>>, "serverInit_header", loc)
    /\ UNCHANGED <<ws, serverInit, framebuffer, options, captures, sock, wire, srv, cfg, ivtpVars, copyVars, auxVars, clock, timers, shot, calls>>

\* The pixel format at offsets 4..16 of a ServerInit header or a SetPixelFormat.
parsePixelFormat(header) ==
    [bitsPerPixel |-> header[5], depth |-> header[6],
     bigEndian |-> header[7] # 0, trueColor |-> header[8] # 0,
     redMax |-> getUint16(header, 8), greenMax |-> getUint16(header, 10),
     blueMax |-> getUint16(header, 12),
     redShift |-> header[15], greenShift |-> header[16], blueShift |-> header[17]]

readServerInit_header ==
    /\ rfbPc = "serverInit_header"
    /\ CanRead(24)
    /\ LET header == readBytes(24)
       IN  Proceed(24, <<>>, "serverInit_name",
                   [loc EXCEPT !.header = header, !.len = getUint32(header, 20)])
    /\ UNCHANGED <<ws, serverInit, framebuffer, options, captures, sock, wire, srv, cfg, ivtpVars, copyVars, auxVars, clock, timers, shot, calls>>

\* The name is read, connect() stores ServerInit, allocates the framebuffer
\* and returns (lines 196-202).
readServerInit_name ==
    /\ rfbPc = "serverInit_name"
    /\ CanRead(loc.len)
    /\ LET width == getUint16(loc.header, 0)
           height == getUint16(loc.header, 2)
       IN  /\ serverInit' = [isNull |-> FALSE, width |-> width, height |-> height,
                             pixelFormat |-> parsePixelFormat(loc.header),
                             name |-> readBytes(loc.len)]
           /\ framebuffer' = [isNull |-> FALSE, pixels |-> Zeros(width * height * 4)]
    /\ Proceed(loc.len, <<>>, "connected", [loc EXCEPT !.header = <<>>, !.len = 0])
    /\ UNCHANGED <<ws, options, captures, sock, wire, srv, cfg, ivtpVars, copyVars, auxVars, clock, timers, shot, calls>>

\* ------------------------------------------------- RfbClient: client messages
PixelFormatBytes(pf) ==
    <<pf.bitsPerPixel, pf.depth, IF pf.bigEndian THEN 1 ELSE 0, IF pf.trueColor THEN 1 ELSE 0>>
    \o setUint16(pf.redMax) \o setUint16(pf.greenMax) \o setUint16(pf.blueMax)
    \o <<pf.redShift, pf.greenShift, pf.blueShift>>

sendSetPixelFormat(pf) ==
    <<ClientMessageType.SetPixelFormat, 0, 0, 0>> \o PixelFormatBytes(pf) \o <<0, 0, 0>>

sendSetEncodings(encodings) ==
    <<ClientMessageType.SetEncodings, 0>> \o setUint16(Len(encodings))
    \o setInt32(encodings[1]) \o setInt32(encodings[2])

\* A request that always asks for an incremental update.
sendIncrementalUpdateRequest(incremental, x, y, width, height) ==
    <<ClientMessageType.FramebufferUpdateRequest, 1>>
    \o setUint16(x) \o setUint16(y) \o setUint16(width) \o setUint16(height)

sendFramebufferUpdateRequest(incremental, x, y, width, height) ==
    <<ClientMessageType.FramebufferUpdateRequest, IF incremental THEN 1 ELSE 0>>
    \o setUint16(x) \o setUint16(y) \o setUint16(width) \o setUint16(height)

\* ---------------------------------------------------------- RfbClient.capture
\* capture() up to its first await: the three requests are sent.
\* capture() up to its first await.
Capture ==
    /\ ~serverInit.isNull
    /\ captures' = captures + 1
    /\ Proceed(0, <<sendSetPixelFormat(PIXEL_FORMAT_RGBA),
                    sendSetEncodings(<<EncodingType.Raw, EncodingType.CopyRect>>),
                    sendFramebufferUpdateRequest(FALSE, 0, 0, serverInit.width, serverInit.height)>>,
               "update_type",
               [loc EXCEPT !.looped = FALSE, !.deadline = clock.now + options.readTimeout])
    /\ UNCHANGED <<ws, serverInit, framebuffer, options, sock, wire, srv, cfg, ivtpVars, copyVars, auxVars,
                   clock, timers, calls>>

capture ==
    /\ shot = "none"
    /\ rfbPc \in {"connected", "captured"}
    /\ captures < MaxCaptures
    /\ Capture
    /\ UNCHANGED shot

\* capture() without a ServerInit: it throws "Not connected" before it sends.
capture_notConnected ==
    /\ shot = "none"
    /\ serverInit.isNull
    /\ rejected < MaxRejected
    /\ rejected' = rejected + 1
    /\ UNCHANGED <<rfbVars, ivtpVars, copyVars, decVars, tokVars, desVars, ovhVars, toolVars, httpVars>>

\* The end of receiveRect number loc.i: the next rectangle, or capture() returns.
AfterRect == IF loc.i + 1 < loc.numRects THEN "rect_header" ELSE "captured"

\* The loop of receiveFramebufferUpdate starts over after a message of n bytes
\* that is not a FramebufferUpdate: past the deadline it throws, and otherwise
\* it reads the next message type. Where the clock does not run the test is
\* left to receiveFramebufferUpdate_deadline.
Again(n, l) ==
    IF clock.running /\ clock.now > l.deadline
    THEN Throw(n, "Timeout waiting for framebuffer update", l)
    ELSE Proceed(n, <<>>, "update_type", l)

receiveFramebufferUpdate_type ==
    /\ rfbPc = "update_type"
    /\ CanRead(1)
    /\ LET msgType == readBytes(1)[1]
           l == [loc EXCEPT !.looped = TRUE]
       IN  IF msgType = ServerMessageType.FramebufferUpdate
           THEN Proceed(1, <<>>, "update_header", loc)
           ELSE IF msgType = ServerMessageType.SetColourMapEntries
           THEN Proceed(1, <<>>, "colourMap_header", l)
           ELSE IF msgType = ServerMessageType.Bell
           THEN Again(1, l)
           ELSE IF msgType = ServerMessageType.ServerCutText
           THEN Proceed(1, <<>>, "cutText_header", l)
           ELSE Throw(1, "Unexpected server message type", loc)
    /\ UNCHANGED <<ws, serverInit, framebuffer, options, captures, sock, wire, srv, cfg, ivtpVars, copyVars, auxVars, clock, timers, shot, calls>>

\* The deadline test at the head of the loop, reached again after a skipped
\* message, where the clock does not run: the deadline may have passed.
receiveFramebufferUpdate_deadline ==
    /\ rfbPc = "update_type"
    /\ loc.looped
    /\ ~clock.running
    /\ Throw(0, "Timeout waiting for framebuffer update", loc)
    /\ UNCHANGED <<ws, serverInit, framebuffer, options, captures, sock, wire, srv, cfg, ivtpVars, copyVars, auxVars, clock, timers, shot, calls>>

receiveFramebufferUpdate_header ==
    /\ rfbPc = "update_header"
    /\ CanRead(3)
    /\ LET numRects == getUint16(readBytes(3), 1)
       IN  Proceed(3, <<>>, IF numRects > 0 THEN "rect_header" ELSE "captured",
                   [loc EXCEPT !.numRects = numRects, !.i = 0])
    /\ UNCHANGED <<ws, serverInit, framebuffer, options, captures, sock, wire, srv, cfg, ivtpVars, copyVars, auxVars, clock, timers, shot, calls>>

\* A dispatch that takes every encoding it does not know for Raw.
rectKindLax(encoding) ==
    IF encoding = EncodingType.CopyRect THEN "copy" ELSE "raw"

\* The branch receiveRect takes for an encoding (lines 421, 435, 442).
rectKind(encoding) ==
    IF encoding = EncodingType.Raw THEN "raw"
    ELSE IF encoding = EncodingType.CopyRect THEN "copy"
    ELSE "unsupported"

receiveRect_header ==
    /\ rfbPc = "rect_header"
    /\ CanRead(12)
    /\ LET header == readBytes(12)
           rect == [x |-> getUint16(header, 0), y |-> getUint16(header, 2),
                    width |-> getUint16(header, 4), height |-> getUint16(header, 6),
                    encoding |-> getInt32(header, 8), data |-> <<>>]
           kind == rectKind(rect.encoding)
       IN  IF kind = "raw"
           THEN Proceed(12, <<>>, "rect_raw",
                        [loc EXCEPT !.rect = rect, !.len = rect.width * rect.height * 4])
           ELSE IF kind = "copy"
           THEN Proceed(12, <<>>, "rect_copy", [loc EXCEPT !.rect = rect, !.len = 4])
           ELSE Throw(12, "Unsupported encoding", [loc EXCEPT !.rect = rect])
    /\ UNCHANGED <<ws, serverInit, framebuffer, options, captures, sock, wire, srv, cfg, ivtpVars, copyVars, auxVars, clock, timers, shot, calls>>

\* Raw: decode, then blit row by row; a row that does not fit throws out of
\* capture() with the rows before it already written.
receiveRect_raw ==
    /\ rfbPc = "rect_raw"
    /\ CanRead(loc.len)
    /\ LET rect == [loc.rect EXCEPT !.data = readBytes(loc.len)]
           rgba == decodeRaw(rect, PIXEL_FORMAT_RGBA)
           blit == BlitRows(framebuffer.pixels, rgba, rect, serverInit.width, 0)
       IN  /\ framebuffer' = [framebuffer EXCEPT !.pixels = blit.pixels]
           /\ IF blit.threw
              THEN Throw(loc.len, "RangeError", [loc EXCEPT !.rect = NoRect])
              ELSE Proceed(loc.len, <<>>, AfterRect,
                           [loc EXCEPT !.rect = NoRect, !.len = 0, !.i = loc.i + 1])
    /\ UNCHANGED <<ws, serverInit, options, captures, sock, wire, srv, cfg, ivtpVars, copyVars, auxVars, clock, timers, shot, calls>>

receiveRect_copy ==
    /\ rfbPc = "rect_copy"
    /\ CanRead(4)
    /\ LET rect == [loc.rect EXCEPT !.data = readBytes(4)]
       IN  framebuffer' = [framebuffer EXCEPT
                              !.pixels = decodeCopyRect(rect, framebuffer.pixels, serverInit.width)]
    /\ Proceed(4, <<>>, AfterRect, [loc EXCEPT !.rect = NoRect, !.len = 0, !.i = loc.i + 1])
    /\ UNCHANGED <<ws, serverInit, options, captures, sock, wire, srv, cfg, ivtpVars, copyVars, auxVars, clock, timers, shot, calls>>

\* A length that takes a colour for 4 bytes.
colourMapLenShort(header) == getUint16(header, 3) * 4

\* The bytes that follow the header of SetColourMapEntries: 6 a colour (line 454).
colourMapLen(header) == getUint16(header, 3) * 6

skipSetColourMap_header ==
    /\ rfbPc = "colourMap_header"
    /\ CanRead(5)
    /\ Proceed(5, <<>>, "colourMap_body", [loc EXCEPT !.len = colourMapLen(readBytes(5))])
    /\ UNCHANGED <<ws, serverInit, framebuffer, options, captures, sock, wire, srv, cfg, ivtpVars, copyVars, auxVars, clock, timers, shot, calls>>

skipServerCutText_header ==
    /\ rfbPc = "cutText_header"
    /\ CanRead(7)
    /\ Proceed(7, <<>>, "cutText_body", [loc EXCEPT !.len = getUint32(readBytes(7), 3)])
    /\ UNCHANGED <<ws, serverInit, framebuffer, options, captures, sock, wire, srv, cfg, ivtpVars, copyVars, auxVars, clock, timers, shot, calls>>

\* The body of either skipped message is read and the loop starts over.
skip_body ==
    /\ rfbPc \in {"colourMap_body", "cutText_body"}
    /\ CanRead(loc.len)
    /\ Again(loc.len, [loc EXCEPT !.len = 0])
    /\ UNCHANGED <<ws, serverInit, framebuffer, options, captures, sock, wire, srv, cfg, ivtpVars, copyVars, auxVars, clock, timers, shot, calls>>

\* ------------------------------------------------- RfbClient: socket, timers
\* connect() up to its first await: wsConnect creates the socket and its timer.
connect ==
    /\ shot = "none"
    /\ rfbPc = "new"
    /\ rfbPc' = "wsConnect"
    /\ sock' = "connecting"
    /\ UNCHANGED <<ws, serverInit, framebuffer, receiveBuffer, options, rfbErr, loc, rfbOut,
                   captures, wire, srv, cfg, ivtpVars, copyVars, auxVars, clock, timers, shot, calls, receiveResolve>>

\* The "open" listener; the promise it resolves may already have been rejected.
ws_onopen ==
    /\ sock = "connecting"
    /\ sock' = "open"
    /\ ws' = "ws"
    /\ IF rfbPc = "wsConnect"
       THEN LET w == waitForBytes(12, receiveBuffer)
            IN  /\ rfbPc' = "handshake_version"
                /\ loc' = [loc EXCEPT !.wait = w.wait]
                /\ receiveResolve' = w.resolve
       ELSE UNCHANGED <<rfbPc, loc, receiveResolve>>
    /\ UNCHANGED <<serverInit, framebuffer, receiveBuffer, options, rfbErr, rfbOut,
                   captures, wire, srv, cfg, ivtpVars, copyVars, auxVars, clock, timers, shot, calls>>

\* The "error" listener of a connection that could not be made.
ws_onerror ==
    /\ sock = "connecting"
    /\ sock' = "closed"
    /\ IF rfbPc = "wsConnect"
       THEN rfbPc' = "failed" /\ rfbErr' = "WebSocket error"
       ELSE UNCHANGED <<rfbPc, rfbErr>>
    /\ UNCHANGED <<ws, serverInit, framebuffer, receiveBuffer, options, loc, rfbOut,
                   captures, wire, srv, cfg, ivtpVars, copyVars, auxVars, clock, timers, shot, calls, receiveResolve>>

\* The "close" listener: the server has closed the connection, every message
\* it sent before delivered, or the close that ws.close() started is done.
ws_onclose ==
    /\ \/ sock = "open" /\ cfg.closes /\ wire = <<>>
       \/ sock = "closing"
    /\ sock' = "closed"
    /\ ws' = "null"
    /\ srv' = [srv EXCEPT !.state = "closed", !.pending = 0]
    /\ UNCHANGED <<serverInit, framebuffer, receiveBuffer, options, rfbPc, rfbErr, loc, rfbOut,
                   captures, wire, cfg, ivtpVars, copyVars, auxVars, clock, timers, shot, calls, receiveResolve>>

\* What the transport may hand to the "message" listener next: the server's
\* next message whole, or where the transport splits, any part of it from its
\* start, the rest staying in flight.
Deliveries ==
    LET m == Head(wire)
    IN  {[data |-> m, rest |-> Tail(wire)]}
        \cup (IF cfg.splits
              THEN {[data |-> Take(m, k), rest |-> <<Drop(m, k)>> \o Tail(wire)] :
                       k \in 1..(Len(m) - 1)}
              ELSE {})

\* A buffer that keeps only what arrived last.
appendToBufferLatest(buf, data) == data

\* appendToBuffer: this.receiveBuffer followed by data (lines 115-118).
appendToBuffer(buf, data) == buf \o data

\* The "message" listener: appendToBuffer, which resolves the promise a
\* suspended waitForBytes left its callback for. The loop of waitForBytes then
\* runs again: it returns, or throws with no time remaining, or sets the
\* callback and a timer again; the timer of the resolved promise stays set.
ws_onmessage ==
    /\ sock = "open"
    /\ wire # <<>>
    /\ \E d \in Deliveries :
          LET buf == appendToBuffer(receiveBuffer, d.data)
              left == remaining(loc.wait.deadline)
          IN  /\ receiveBuffer' = buf
              /\ wire' = d.rest
              /\ IF ~(loc.wait.asleep /\ receiveResolve)
                 THEN UNCHANGED <<rfbPc, rfbErr, loc, receiveResolve, timers>>
                 ELSE /\ timers' = IF clock.running THEN timers \cup {loc.wait.timerAt}
                                   ELSE timers
                      /\ IF Len(buf) >= awaited
                         THEN /\ loc' = [loc EXCEPT !.wait = NoWait]
                              /\ receiveResolve' = FALSE
                              /\ UNCHANGED <<rfbPc, rfbErr>>
                         ELSE IF clock.running /\ left <= 0
                         THEN /\ loc' = [loc EXCEPT !.wait = NoWait]
                              /\ receiveResolve' = FALSE
                              /\ rfbPc' = "failed"
                              /\ rfbErr' = readTimeoutError(rfbPc)
                         ELSE /\ loc' = [loc EXCEPT !.wait.timerAt = clock.now + left]
                              /\ receiveResolve' = TRUE
                              /\ UNCHANGED <<rfbPc, rfbErr>>
    /\ UNCHANGED <<ws, serverInit, framebuffer, options, rfbOut,
                   captures, sock, srv, cfg, ivtpVars, copyVars, auxVars, clock, shot, calls>>

\* A close() that leaves the socket as it is.
closeSocketNot(s) == s

\* WebSocket.close(): the closing handshake starts, unless the socket is
\* closing or closed already; no "message" or "open" event follows.
closeSocket(s) == IF s \in {"connecting", "open"} THEN "closing" ELSE s

\* A disconnect() that leaves this.ws as it is.
disconnectedKeepingWs(c) ==
    IF c.ws # "null" THEN [c EXCEPT !.sock = closeSocket(c.sock), !.close = c.close + 1] ELSE c

\* disconnect() (lines 72-77) on a client whose this.ws is c.ws and whose
\* socket is c.sock, c.close calls of ws.close() made before.
disconnected(c) ==
    IF c.ws # "null"
    THEN [ws |-> "null", sock |-> closeSocket(c.sock), close |-> c.close + 1]
    ELSE c

\* The client as disconnect() sees it.
Transport == [ws |-> ws, sock |-> sock, close |-> calls.close]

\* A call connect() or capture() is waiting for bytes that are not there.
Waiting == awaited >= 0 /\ loc.wait.asleep /\ Len(receiveBuffer) < awaited

\* disconnect(), with what it leaves in calls.
Disconnect ==
    LET d == disconnected(Transport)
    IN  /\ ws' = d.ws
        /\ sock' = d.sock
        /\ calls' = [disconnect |-> calls.disconnect + 1, close |-> d.close,
                     cut |-> calls.cut \/ (Waiting /\ ws # "null")]
        /\ UNCHANGED <<serverInit, framebuffer, receiveBuffer, options, rfbPc, rfbErr, loc, rfbOut,
                       captures, wire, srv, cfg, ivtpVars, copyVars, auxVars, clock, timers, receiveResolve>>

\* disconnect() called by the owner of the client.
disconnect ==
    /\ shot = "none"
    /\ rfbPc # "new"
    /\ calls.disconnect < MaxDisconnects
    /\ Disconnect
    /\ UNCHANGED shot

\* ------------------------------------------------------- captureScreenshot
\* captureScreenshot up to its first await: client.connect().
captureScreenshot_connect ==
    /\ shot = "start"
    /\ rfbPc = "new"
    /\ shot' = "connect"
    /\ rfbPc' = "wsConnect"
    /\ sock' = "connecting"
    /\ UNCHANGED <<ws, serverInit, framebuffer, receiveBuffer, options, rfbErr, loc, rfbOut,
                   captures, wire, srv, cfg, ivtpVars, copyVars, auxVars, clock, timers, calls,
                   receiveResolve>>

\* connect() has returned: client.capture().
captureScreenshot_capture ==
    /\ shot = "connect"
    /\ rfbPc = "connected"
    /\ shot' = "capture"
    /\ Capture

\* connect() or capture() has thrown, or capture() has returned and the PNG is
\* made: the finally block disconnects, and the promise settles.
captureScreenshot_finally ==
    /\ \/ shot \in {"connect", "capture"} /\ rfbPc = "failed"
       \/ shot = "capture" /\ rfbPc = "captured"
    /\ shot' = "settled"
    /\ Disconnect

\* The timer of wsConnect.
wsConnect_timeout ==
    /\ rfbPc = "wsConnect"
    /\ rfbPc' = "failed"
    /\ rfbErr' = "Connection timeout"
    /\ UNCHANGED <<ws, serverInit, framebuffer, receiveBuffer, options, loc, rfbOut,
                   captures, sock, wire, srv, cfg, ivtpVars, copyVars, auxVars, clock, timers, shot, calls, receiveResolve>>

\* Nothing is on its way to the client and the server has nothing to send.
Quiet ==
    /\ wire = <<>>
    /\ srv.pending = 0
    /\ \/ sock # "open"
       \/ srv.seen = Len(rfbOut) /\ srv.state # "idle"
       \/ srv.state \in {"closed", "other"}

\* The timer of the promise waitForBytes is suspended on: it clears
\* this.receiveResolve and rejects, and the catch lets the call go on when the
\* bytes are there and throws when they are not. Where the clock runs the
\* timer fires at its time. Where it does not, it may fire at any moment,
\* but a prompt server answers well within the timeout, so that against it
\* the timer only expires once the traffic has gone quiet.
waitForBytes_timeout ==
    /\ awaited >= 0
    /\ loc.wait.asleep
    /\ IF clock.running THEN loc.wait.timerAt <= clock.now ELSE (cfg.prompt => Quiet)
    /\ receiveResolve' = FALSE
    /\ loc' = [loc EXCEPT !.wait = NoWait]
    /\ IF Len(receiveBuffer) >= awaited
       THEN UNCHANGED <<rfbPc, rfbErr>>
       ELSE rfbPc' = "failed" /\ rfbErr' = readTimeoutError(rfbPc)
    /\ UNCHANGED <<ws, serverInit, framebuffer, receiveBuffer, options, rfbOut,
                   captures, sock, wire, srv, cfg, ivtpVars, copyVars, auxVars, clock, timers, shot, calls>>

\* The timer of a promise that a message resolved before: its callback still
\* clears this.receiveResolve (lines 138-141), whoever set it.
waitForBytes_staleTimer ==
    /\ clock.running
    /\ \E t \in timers : t <= clock.now /\ timers' = timers \ {t}
    /\ receiveResolve' = FALSE
    /\ UNCHANGED <<ws, serverInit, framebuffer, receiveBuffer, options, rfbPc, rfbErr, loc, rfbOut,
                   captures, sock, wire, srv, cfg, ivtpVars, copyVars, auxVars, clock, shot, calls>>

\* Date.now() goes up by one tick: no timer is due and the client has
\* nothing it can go on with, since the steps of the client take no time.
Tick ==
    /\ clock.running
    /\ clock.now < MaxTime
    /\ \A t \in timers : t > clock.now
    /\ loc.wait.asleep => loc.wait.timerAt > clock.now
    /\ ~(awaited >= 0 /\ CanRead(awaited))
    /\ clock' = [clock EXCEPT !.now = clock.now + 1]
    /\ UNCHANGED <<ws, serverInit, framebuffer, receiveBuffer, options, rfbPc, rfbErr, loc, rfbOut,
                   captures, sock, wire, srv, cfg, ivtpVars, copyVars, auxVars, timers, shot, calls,
                   receiveResolve>>

\* ------------------------------------------------------------ the RFB server
\* The server end of the socket: TestVncServer (test/helpers/vnc-server.ts),
\* generalised to what cfg sets it up to offer, and following the RFB protocol
\* of the version the client replied with.
ServerName == <<86, 78, 67>>
Reason == <<0, 0, 0, 2, 110, 111>>
Challenge == <<1, 2, 3, 4, 5, 6, 7, 8, 9, 10, 11, 12, 13, 14, 15, 16>>
Palette == {<<255, 0, 0>>, <<10, 20, 30>>}

\* The next message of the client the server has not handled yet.
HasMessage == sock = "open" /\ srv.seen < Len(rfbOut)
Message == rfbOut[srv.seen + 1]
\* The handler has consumed Message, sends msgs and leaves the server as s.
Reply(msgs, s) ==
    /\ wire' = wire \o msgs
    /\ srv' = [s EXCEPT !.seen = srv.seen + 1]

\* open(ws): the version line.
handleOpen ==
    /\ sock = "open"
    /\ srv.state = "idle"
    /\ wire' = wire \o <<VersionLine(cfg.major, cfg.minor)>>
    /\ srv' = [srv EXCEPT !.state = "version"]
    /\ UNCHANGED <<ws, serverInit, framebuffer, receiveBuffer, options, rfbPc, rfbErr, loc,
                   rfbOut, captures, sock, cfg, ivtpVars, copyVars, auxVars, clock, timers, shot, calls, receiveResolve>>

\* The protocol minor version agreed by the client's reply: 8, 7 or 3.
agreedMinor(reply) ==
    LET minor == parseInt3(reply, 9)
    IN  IF minor >= 8 THEN 8 ELSE IF minor = 7 THEN 7 ELSE 3

\* The client's version reply: the security types, as a counted list from 3.7
\* on and as the one 32-bit type the server decides on in 3.3, where the
\* challenge of VNC authentication follows at once.
handleVersion ==
    /\ HasMessage
    /\ srv.state = "version"
    /\ LET cv == agreedMinor(Message)
           type == IF cfg.types = <<>> THEN 0 ELSE cfg.types[1]
           to(st) == [srv EXCEPT !.state = st, !.cv = cv]
       IN  IF cv >= 7
           THEN IF cfg.types = <<>>
                THEN Reply(<< <<0>> \o Reason >>, to("closed"))
                ELSE Reply(<< <<Len(cfg.types)>> \o cfg.types >>, to("security"))
           ELSE IF type = 0
                THEN Reply(<< setUint32(0) \o Reason >>, to("closed"))
                ELSE IF type = SecurityType.VncAuth
                THEN Reply(<<setUint32(type), Challenge>>, to("vnc-auth"))
                ELSE IF type = SecurityType.None
                THEN Reply(<<setUint32(type)>>, to("init"))
                ELSE Reply(<<setUint32(type)>>, to("other"))
    /\ UNCHANGED <<ws, serverInit, framebuffer, receiveBuffer, options, rfbPc, rfbErr, loc,
                   rfbOut, captures, sock, cfg, ivtpVars, copyVars, auxVars, clock, timers, shot, calls, receiveResolve>>

\* The client's selection (3.7 and 3.8): the challenge, or for None the
\* SecurityResult that 3.8 sends and 3.7 does not.
handleSecurityChoice ==
    /\ HasMessage
    /\ srv.state = "security"
    /\ LET chosen == Message[1]
       IN  IF chosen = SecurityType.VncAuth
           THEN Reply(<<Challenge>>, [srv EXCEPT !.state = "vnc-auth"])
           ELSE IF srv.cv >= 8
           THEN Reply(<<setUint32(0)>>, [srv EXCEPT !.state = "init"])
           ELSE Reply(<<>>, [srv EXCEPT !.state = "init"])
    /\ UNCHANGED <<ws, serverInit, framebuffer, receiveBuffer, options, rfbPc, rfbErr, loc,
                   rfbOut, captures, sock, cfg, ivtpVars, copyVars, auxVars, clock, timers, shot, calls, receiveResolve>>

\* The client's response to the challenge: SecurityResult, with a reason
\* after a failure in 3.8.
handleVncAuth ==
    /\ HasMessage
    /\ srv.state = "vnc-auth"
    /\ IF cfg.authResult = 0
       THEN Reply(<<setUint32(0)>>, [srv EXCEPT !.state = "init"])
       ELSE IF srv.cv >= 8
       THEN Reply(<< setUint32(cfg.authResult) \o Reason >>, [srv EXCEPT !.state = "closed"])
       ELSE Reply(<<setUint32(cfg.authResult)>>, [srv EXCEPT !.state = "closed"])
    /\ UNCHANGED <<ws, serverInit, framebuffer, receiveBuffer, options, rfbPc, rfbErr, loc,
                   rfbOut, captures, sock, cfg, ivtpVars, copyVars, auxVars, clock, timers, shot, calls, receiveResolve>>

\* sendServerInit: the screen, the pixel format and the name.
sendServerInit ==
    setUint16(cfg.width) \o setUint16(cfg.height)
    \o PixelFormatBytes(PIXEL_FORMAT_RGBA) \o <<0, 0, 0>>
    \o setUint32(Len(ServerName)) \o ServerName

\* ClientInit: ServerInit.
handleClientInit ==
    /\ HasMessage
    /\ srv.state = "init"
    /\ Reply(<<sendServerInit>>, [srv EXCEPT !.state = "ready"])
    /\ UNCHANGED <<ws, serverInit, framebuffer, receiveBuffer, options, rfbPc, rfbErr, loc,
                   rfbOut, captures, sock, cfg, ivtpVars, copyVars, auxVars, clock, timers, shot, calls, receiveResolve>>

\* One pixel of colour c in the format the client asked for.
EncodePixel(c, format) ==
    LET pixel == BitOr(BitOr(Shl(BitAnd(c[1], format.redMax), format.redShift % 32),
                             Shl(BitAnd(c[2], format.greenMax), format.greenShift % 32)),
                       Shl(BitAnd(c[3], format.blueMax), format.blueShift % 32))
        b(n) == (IF n = 0 THEN pixel ELSE Shr(pixel, n)) % 256
    IN  IF format.bigEndian THEN <<b(24), b(16), b(8), b(0)>> ELSE <<b(0), b(8), b(16), b(24)>>

\* The pixel data of a w x h rectangle filled with colour c.
SolidPixels(w, h, c, format) ==
    IF format.bitsPerPixel = 32
    THEN [k \in 1..(w * h * 4) |-> EncodePixel(c, format)[((k - 1) % 4) + 1]]
    ELSE Zeros(w * h * (format.bitsPerPixel \div 8))

RectHeader(x, y, w, h, encoding) ==
    setUint16(x) \o setUint16(y) \o setUint16(w) \o setUint16(h) \o setInt32(encoding)

\* sendFramebufferUpdate: one Raw rectangle for the region asked for.
sendFramebufferUpdate(x, y, w, h) ==
    <<ServerMessageType.FramebufferUpdate, 0>> \o setUint16(1)
    \o RectHeader(x, y, w, h, EncodingType.Raw) \o SolidPixels(w, h, cfg.colour, srv.format)

\* What a server may send ahead of a FramebufferUpdate.
Extras ==
    {<<>>, <<ServerMessageType.Bell>>,
     <<ServerMessageType.SetColourMapEntries, 0, 0, 0, 0, 1, 0, 1, 0, 2, 0, 3>>,
     <<ServerMessageType.ServerCutText, 0, 0, 0, 0, 0, 0, 1, 104>>,
     <<4>>}

\* A client message in the ready state. A solid server answers a request as
\* TestVncServer does; a free server answers it with a FramebufferUpdate header
\* announcing rectangles, or with another message ahead of an empty update;
\* it spends its rectangles on the first request.
handleClientMessage ==
    /\ HasMessage
    /\ srv.state = "ready"
    /\ LET data == Message
           msgType == data[1]
       IN  IF msgType = 0 /\ Len(data) >= 20
           THEN Reply(<<>>, [srv EXCEPT !.format = parsePixelFormat(data)])
           ELSE IF msgType = 2
           THEN Reply(<<>>, srv)
           ELSE IF msgType = 3 /\ Len(data) >= 10
           THEN IF cfg.mode = "solid"
                THEN Reply(<<Concat(cfg.extra)
                             \o sendFramebufferUpdate(getUint16(data, 2), getUint16(data, 4),
                                                      getUint16(data, 6), getUint16(data, 8))>>,
                           srv)
                ELSE \E extra \in Extras, numRects \in 0..srv.left :
                        /\ extra = <<>> \/ numRects = 0
                        /\ Reply(<< extra \o <<ServerMessageType.FramebufferUpdate, 0>>
                                 \o setUint16(numRects) >>,
                              [srv EXCEPT !.left = 0, !.pending = numRects])
           ELSE Reply(<<>>, srv)
    /\ UNCHANGED <<ws, serverInit, framebuffer, receiveBuffer, options, rfbPc, rfbErr, loc,
                   rfbOut, captures, sock, cfg, ivtpVars, copyVars, auxVars, clock, timers, shot, calls, receiveResolve>>

\* The rectangles a free server may send: Raw ones of one colour and CopyRect
\* ones, anywhere inside or outside the screen, and one of an encoding the
\* client did not ask for.
Rects ==
    LET D == 0..MaxDim
    IN  {RectHeader(x, y, w, h, EncodingType.Raw) \o SolidPixels(w, h, c, srv.format) :
            x \in D, y \in D, w \in D, h \in D, c \in Palette}
        \cup {RectHeader(x, y, w, h, EncodingType.CopyRect) \o setUint16(srcX) \o setUint16(srcY) :
            x \in D, y \in D, w \in 1..MaxDim, h \in 1..MaxDim, srcX \in D, srcY \in D}
        \cup {RectHeader(0, 0, 1, 1, 5), RectHeader(0, 0, 1, 1, -239)}

\* A free server sends the next announced rectangle once the client has
\* taken in what was sent before.
sendRect ==
    /\ sock = "open"
    /\ srv.pending > 0
    /\ wire = <<>>
    /\ receiveBuffer = <<>>
    /\ \E rect \in Rects : wire' = <<rect>>
    /\ srv' = [srv EXCEPT !.pending = srv.pending - 1]
    /\ UNCHANGED <<ws, serverInit, framebuffer, receiveBuffer, options, rfbPc, rfbErr, loc,
                   rfbOut, captures, sock, cfg, ivtpVars, copyVars, auxVars, clock, timers, shot, calls, receiveResolve>>

\* ===================================================== IVTP (kvm/screenshot.ts)
\* Largest compressSize a BMC declares for its frame.
MaxCompress == 3

IVTP ==
    [HDR_SIZE |-> 8, VIDEO_PACKET_SIZE |-> 373, SSI_HASH_SIZE |-> 129,
     CLINET_OWN_IP_LENGTH |-> 65, CLIENT_USERNAME_LENGTH |-> 129, CLINET_OWN_MAC_LENGTH |-> 49,
     CMD_RESUME_REDIRECTION |-> 6, CMD_GET_FULL_SCREEN |-> 11,
     CMD_VALIDATE_VIDEO_SESSION |-> 18, CMD_VALIDATED_VIDEO_SESSION |-> 19,
     CMD_CONNECTION_ALLOWED |-> 23, CMD_VIDEO_PACKETS |-> 25, CMD_POWER_STATUS |-> 34,
     CMD_CONNECTION_COMPLETE_PKT |-> 58]

\* DataView little-endian accessors (the IVTP wire order), 0-based offset o.
getUint16LE(b, o) == b[o + 1] + b[o + 2] * 256
getUint32LE(b, o) == b[o + 1] + 256 * (b[o + 2] + 256 * (b[o + 3] + 256 * b[o + 4]))
setUint16LE(n) == << n % 256, (n \div 256) % 256 >>
setUint32LE(n) == << n % 256, (n \div 256) % 256, (n \div 65536) % 256, (n \div 16777216) % 256 >>

createIvtpHeader(type, pktsize, status) ==
    setUint16LE(type) \o setUint32LE(pktsize) \o setUint16LE(status)

parseIvtpHeader(data) ==
    [type |-> getUint16LE(data, 0), pktsize |-> getUint32LE(data, 2),
     status |-> getUint16LE(data, 6)]

\* writeCString: at most maxLen - 1 bytes of str, into a zeroed buffer.
writeCString(buf, offset, str, maxLen) ==
    set(buf, SubSeq(str, 1, Min(Len(str), maxLen - 1)), offset)

\* The session establishBmcSession hands to captureVideoFrame.
Session == [kvmToken |-> <<116, 107>>, clientIp |-> <<49, 46, 50>>]
\* "domain/username" and "00-00-00-00-00-00"
Username == <<100, 111, 109, 97, 105, 110, 47, 117, 115, 101, 114, 110, 97, 109, 101>>
MacAddress == <<48, 48, 45, 48, 48, 45, 48, 48, 45, 48, 48, 45, 48, 48, 45, 48, 48>>

\* The 373-byte payload of VALIDATE_VIDEO_SESSION (lines 356-366).
authData(session) ==
    LET a1 == writeCString(Zeros(IVTP.VIDEO_PACKET_SIZE), 1, session.kvmToken, IVTP.SSI_HASH_SIZE)
        o2 == 1 + IVTP.SSI_HASH_SIZE
        a2 == writeCString(a1, o2, session.clientIp, IVTP.CLINET_OWN_IP_LENGTH)
        o3 == o2 + IVTP.CLINET_OWN_IP_LENGTH
        a3 == writeCString(a2, o3, Username, IVTP.CLIENT_USERNAME_LENGTH)
        o4 == o3 + IVTP.CLIENT_USERNAME_LENGTH
    IN  writeCString(a3, o4, MacAddress, IVTP.CLINET_OWN_MAC_LENGTH)

\* An authentication packet that resumes redirection before it validates.
buildAuthPacketResumeFirst(session) ==
    setUint16LE(IVTP.CMD_CONNECTION_COMPLETE_PKT) \o setUint32LE(0) \o setUint16LE(1)
    \o setUint16LE(IVTP.CMD_RESUME_REDIRECTION) \o setUint32LE(0) \o setUint16LE(0)
    \o setUint16LE(IVTP.CMD_VALIDATE_VIDEO_SESSION) \o setUint32LE(IVTP.VIDEO_PACKET_SIZE)
    \o setUint16LE(1)
    \o authData(session)

buildAuthPacket(session) ==
    setUint16LE(IVTP.CMD_CONNECTION_COMPLETE_PKT) \o setUint32LE(0) \o setUint16LE(1)
    \o setUint16LE(IVTP.CMD_VALIDATE_VIDEO_SESSION) \o setUint32LE(IVTP.VIDEO_PACKET_SIZE)
    \o setUint16LE(1)
    \o authData(session)
    \o setUint16LE(IVTP.CMD_RESUME_REDIRECTION) \o setUint32LE(0) \o setUint16LE(0)

\* The closure of captureVideoFrame as the promise executor leaves it. sent is
\* what was passed to ws.send, outcome the promise, closeCalled whether finish
\* has called ws.close(), and log the packets handled and the messages sent,
\* in order.
NoFrame == [width |-> 0, height |-> 0, headerBytes |-> <<>>, compressedChunks |-> <<>>,
            compressSize |-> 0]
NewCapture ==
    [recvBuf |-> <<>>, connected |-> FALSE, settled |-> FALSE, fullScreenRequested |-> FALSE,
     headerBytes |-> [isNull |-> TRUE, bytes |-> <<>>], headerLen |-> 0,
     frameWidth |-> 0, frameHeight |-> 0, compressSize |-> 0,
     compressedChunks |-> <<>>, receivedCompressedBytes |-> 0, isFirstPacket |-> TRUE,
     sent |-> <<>>, outcome |-> [kind |-> "pending", err |-> "", frame |-> NoFrame],
     closeCalled |-> FALSE, log |-> <<>>,
     timers |-> [connect |-> TRUE, frame |-> TRUE]]

\* finish(err, frame) without its test of settled, the promise taking the
\* outcome of the last call.
finishAgain(st, err, frame) ==
    [st EXCEPT !.settled = TRUE, !.closeCalled = TRUE,
               !.timers = [connect |-> FALSE, frame |-> FALSE],
               !.outcome = IF err # "" THEN [kind |-> "rejected", err |-> err, frame |-> NoFrame]
                           ELSE [kind |-> "resolved", err |-> "", frame |-> frame]]

\* finish(err, frame): the first call clears both timers, closes the socket
\* and settles the promise.
finish(st, err, frame) ==
    IF st.settled THEN st
    ELSE [st EXCEPT !.settled = TRUE, !.closeCalled = TRUE,
                    !.timers = [connect |-> FALSE, frame |-> FALSE],
                    !.outcome = IF err # "" THEN [kind |-> "rejected", err |-> err, frame |-> NoFrame]
                                ELSE [kind |-> "resolved", err |-> "", frame |-> frame]]

\* ws.send(msg); a socket that close() was called on transmits nothing.
wsSend(st, msg) ==
    IF st.closeCalled THEN st
    ELSE [st EXCEPT !.sent = Append(st.sent, msg), !.log = Append(st.log, [k |-> "send", msg |-> msg])]

\* payload.subarray(a) of a Buffer
From(payload, a) == SubSeq(payload, Min(a, Len(payload)) + 1, Len(payload))

handleVideoPacket(st, payload) ==
    IF Len(payload) < 4 THEN st
    ELSE LET FRAG_SIZE == 2
             first == st.isFirstPacket
             headerLen == getUint16LE(payload, 4)
             dataStart == IF first THEN FRAG_SIZE + headerLen ELSE FRAG_SIZE
             chunk == From(payload, dataStart)
             s1 == IF first
                   THEN [st EXCEPT !.isFirstPacket = FALSE,
                                   !.headerLen = headerLen,
                                   !.frameWidth = getUint16LE(payload, 6),
                                   !.frameHeight = getUint16LE(payload, 8),
                                   !.compressSize = getUint32LE(payload, 71),
                                   !.headerBytes = [isNull |-> FALSE,
                                                    bytes |-> Slice(payload, FRAG_SIZE,
                                                                    FRAG_SIZE + headerLen)]]
                   ELSE st
             s2 == IF Len(payload) > dataStart
                   THEN [s1 EXCEPT !.compressedChunks = Append(s1.compressedChunks, chunk),
                                   !.receivedCompressedBytes = s1.receivedCompressedBytes + Len(chunk)]
                   ELSE s1
         IN  IF s2.compressSize > 0 /\ s2.receivedCompressedBytes >= s2.compressSize
                /\ ~s2.headerBytes.isNull
             THEN finish(s2, "", [width |-> s2.frameWidth, height |-> s2.frameHeight,
                                  headerBytes |-> s2.headerBytes.bytes,
                                  compressedChunks |-> s2.compressedChunks,
                                  compressSize |-> s2.compressSize])
             ELSE s2

\* A result that takes an empty payload for an acceptance.
validationResultLenient(payload) == IF Len(payload) > 0 THEN payload[1] ELSE 1

\* The result byte of VALIDATED_VIDEO_SESSION (line 482).
validationResult(payload) == IF Len(payload) > 0 THEN payload[1] ELSE 0

\* A test that takes every POWER_STATUS for the first.
firstPowerStatusAlways(st) == TRUE

\* if (!fullScreenRequested) (line 492).
firstPowerStatus(st) == ~st.fullScreenRequested

handleMessage(st0, type, status, payload) ==
    LET st == [st0 EXCEPT !.log = Append(st0.log, [k |-> "recv", type |-> type,
                                                   payload |-> payload])]
    IN  IF type = IVTP.CMD_CONNECTION_ALLOWED
        THEN wsSend(st, buildAuthPacket(Session))
        ELSE IF type = IVTP.CMD_VALIDATED_VIDEO_SESSION
        THEN LET result == validationResult(payload)
             IN  IF result = 1
                 THEN wsSend(st, createIvtpHeader(IVTP.CMD_POWER_STATUS, 0, 0))
                 ELSE finish(st, "KVM session validation failed", NoFrame)
        ELSE IF type = IVTP.CMD_POWER_STATUS
        THEN IF firstPowerStatus(st)
             THEN wsSend(wsSend([st EXCEPT !.fullScreenRequested = TRUE],
                                createIvtpHeader(IVTP.CMD_RESUME_REDIRECTION, 0, 0)),
                         createIvtpHeader(IVTP.CMD_GET_FULL_SCREEN, 0, 0))
             ELSE st
        ELSE IF type = IVTP.CMD_VIDEO_PACKETS
        THEN handleVideoPacket(st, payload)
        ELSE st

\* A length that leaves the payload out.
totalLenHeader(hdr) == IVTP.HDR_SIZE

\* totalLen = IVTP.HDR_SIZE + hdr.pktsize (line 467).
totalLen(hdr) == IVTP.HDR_SIZE + hdr.pktsize

RECURSIVE processMessages(_)
processMessages(st) ==
    IF Len(st.recvBuf) < IVTP.HDR_SIZE THEN st
    ELSE LET hdr == parseIvtpHeader(st.recvBuf)
             total == totalLen(hdr)
         IN  IF Len(st.recvBuf) < total THEN st
             ELSE processMessages(
                      handleMessage([st EXCEPT !.recvBuf = From(st.recvBuf, total)],
                                    hdr.type, hdr.status,
                                    Slice(st.recvBuf, IVTP.HDR_SIZE, total)))

\* ------------------------------------------- captureVideoFrame: the handlers
\* An onopen that clears the frame timer with the connect timer.
clearedOnOpenBoth(t) == [connect |-> FALSE, frame |-> FALSE]

\* clearTimeout(connectTimer) of ws.onopen (line 428).
clearedOnOpen(t) == [t EXCEPT !.connect = FALSE]

kvm_onopen ==
    /\ bsock = "connecting"
    /\ ~cvf.closeCalled
    /\ bsock' = "open"
    /\ cvf' = [cvf EXCEPT !.connected = TRUE, !.timers = clearedOnOpen(cvf.timers)]
    /\ UNCHANGED <<bwire, bmc, bcfg, bout, rfbVars, copyVars, auxVars>>

\* What the transport may hand to ws.onmessage next: the next message of the
\* BMC whole, or where the transport splits, any part of it from its start.
Chunks ==
    LET m == Head(bwire)
    IN  {[data |-> m, rest |-> Tail(bwire)]}
        \cup (IF bcfg.splits
              THEN {[data |-> Take(m, k), rest |-> <<Drop(m, k)>> \o Tail(bwire)] :
                       k \in 1..(Len(m) - 1)}
              ELSE {})

\* ws.onmessage: the chunk is appended and every complete packet is handled.
kvm_onmessage ==
    /\ bsock = "open"
    /\ ~cvf.closeCalled
    /\ bwire # <<>>
    /\ \E c \in Chunks :
          /\ cvf' = processMessages([cvf EXCEPT !.recvBuf = cvf.recvBuf \o c.data])
          /\ bwire' = c.rest
    /\ UNCHANGED <<bsock, bmc, bcfg, bout, rfbVars, copyVars, auxVars>>

\* ws.onerror of a connection that could not be made.
kvm_onerror ==
    /\ bsock = "connecting"
    /\ bsock' = "errored"
    /\ cvf' = finish(cvf, "KVM WebSocket connection error", NoFrame)
    /\ UNCHANGED <<bwire, bmc, bcfg, bout, rfbVars, copyVars, auxVars>>

\* ws.onclose: after an error, after finish has called close(), or when the
\* BMC ends the connection, every message sent before that delivered.
kvm_onclose ==
    /\ \/ bsock = "errored"
       \/ bsock \in {"connecting", "open"} /\ cvf.closeCalled
       \/ bsock = "open" /\ bwire = <<>>
    /\ bsock' = "closed"
    /\ cvf' = IF ~cvf.settled
              THEN finish(cvf, "KVM WebSocket closed before frame received", NoFrame)
              ELSE cvf
    /\ UNCHANGED <<bwire, bmc, bcfg, bout, rfbVars, copyVars, auxVars>>

\* connectTimer, which onopen and finish clear.
connectTimer ==
    /\ cvf.timers.connect
    /\ cvf' = LET st == [cvf EXCEPT !.timers.connect = FALSE]
              IN  IF ~st.connected
                  THEN finish(st, "KVM WebSocket connection timed out", NoFrame)
                  ELSE st
    /\ UNCHANGED <<bsock, bwire, bmc, bcfg, bout, rfbVars, copyVars, auxVars>>

\* frameTimer, which finish clears.
frameTimer ==
    /\ cvf.timers.frame
    /\ cvf' = finish([cvf EXCEPT !.timers.frame = FALSE],
                     "No complete video frame received", NoFrame)
    /\ UNCHANGED <<bsock, bwire, bmc, bcfg, bout, rfbVars, copyVars, auxVars>>

\* The connectTimeout and the frameTimeout captureVideoFrame is called with,
\* in ticks of the clock.
ConnectTimeout == 1
FrameTimeout == 2

\* The callback of connectTimer, due connectTimeout after the call.
connectTimer_due ==
    /\ clock.running
    /\ clock.now >= ConnectTimeout
    /\ connectTimer

\* The callback of frameTimer, due frameTimeout after the call.
frameTimer_due ==
    /\ clock.running
    /\ clock.now >= FrameTimeout
    /\ frameTimer

\* The clock goes up by one tick: no timer of captureVideoFrame that is still
\* set is due.
kvm_Tick ==
    /\ clock.running
    /\ clock.now < MaxTime
    /\ ~(cvf.timers.connect /\ clock.now >= ConnectTimeout)
    /\ ~(cvf.timers.frame /\ clock.now >= FrameTimeout)
    /\ clock' = [clock EXCEPT !.now = clock.now + 1]
    /\ UNCHANGED <<ws, serverInit, framebuffer, receiveBuffer, options, rfbPc, rfbErr, loc, rfbOut,
                   captures, sock, wire, srv, cfg, ivtpVars, copyVars, auxVars, timers, shot, calls,
                   receiveResolve>>

\* -------------------------------------------------------------------- the BMC
\* The BMC end of the KVM socket: MockBmcServer, whose validation answer and
\* frame are what bcfg sets, and whose frame goes out in fragments of any sizes.
HEADER_LEN == 86
BmcWidth == 320
BmcHeight == 240
\* Compressed byte i (1-based) of the frame.
FrameByte(i) == 160 + i

\* The AST2500 video engine header of buildAst2500VideoPacket.
VideoHeader(compressSize) ==
    LET numMB == ((BmcWidth + 7) \div 8) * ((BmcHeight + 7) \div 8)
        h1 == set(Zeros(HEADER_LEN), setUint16LE(1) \o setUint16LE(HEADER_LEN)
                                     \o setUint16LE(BmcWidth) \o setUint16LE(BmcHeight), 0)
        h2 == set(h1, setUint16LE(BmcWidth) \o setUint16LE(BmcHeight), 13)
        h3 == set(h2, <<3, 16, 4, 0>>, 42)
        h4 == set(h3, <<7>>, 47)
        h5 == set(h4, setUint32LE(numMB), 49)
    IN  set(h5, setUint32LE(compressSize), 69)

\* A packet of the given type around a payload.
IvtpPacket(type, status, payload) == createIvtpHeader(type, Len(payload), status) \o payload

handleWsOpen ==
    /\ bsock = "open"
    /\ ~bmc.opened
    /\ bmc' = [bmc EXCEPT !.opened = TRUE]
    /\ bwire' = bwire \o <<IvtpPacket(IVTP.CMD_CONNECTION_ALLOWED, 0, <<>>)>>
    /\ bout' = bout \o IvtpPacket(IVTP.CMD_CONNECTION_ALLOWED, 0, <<>>)
    /\ UNCHANGED <<cvf, bsock, bcfg, rfbVars, copyVars, auxVars>>

\* sendValidationResponse: the result byte bcfg sets, or no payload at all.
sendValidationResponse ==
    IvtpPacket(IVTP.CMD_VALIDATED_VIDEO_SESSION, 0,
               IF bcfg.result < 0 THEN <<>> ELSE <<bcfg.result, 0>>)

sendPowerStatus == IvtpPacket(IVTP.CMD_POWER_STATUS, 1, <<>>)

RECURSIVE Answers(_, _)
\* The loop of handleWsMessage over the packets of data from offset on: the
\* answers sent, and whether a video frame was asked for.
Answers(data, offset) ==
    IF offset + IVTP.HDR_SIZE > Len(data) THEN [msgs |-> <<>>, frame |-> FALSE]
    ELSE LET type == getUint16LE(data, offset)
             pktsize == getUint32LE(data, offset + 2)
             rest == Answers(data, offset + IVTP.HDR_SIZE + pktsize)
         IN  IF type = IVTP.CMD_VALIDATE_VIDEO_SESSION
             THEN [rest EXCEPT !.msgs = <<sendValidationResponse>> \o rest.msgs]
             ELSE IF type = IVTP.CMD_POWER_STATUS
             THEN [rest EXCEPT !.msgs = [k \in 1..(1 + bcfg.power) |-> sendPowerStatus]
                                        \o rest.msgs]
             ELSE IF type = IVTP.CMD_GET_FULL_SCREEN
             THEN [rest EXCEPT !.frame = TRUE]
             ELSE rest

handleWsMessage ==
    /\ bsock = "open"
    /\ bmc.seen < Len(cvf.sent)
    /\ LET answers == Answers(cvf.sent[bmc.seen + 1], 0)
       IN  /\ bwire' = bwire \o answers.msgs
           /\ bout' = bout \o Concat(answers.msgs)
           /\ bmc' = [bmc EXCEPT !.seen = bmc.seen + 1,
                                 !.frameDue = bmc.frameDue \/ answers.frame]
    /\ UNCHANGED <<cvf, bsock, bcfg, rfbVars, copyVars, auxVars>>

\* sendVideoFrame, once its delay has passed: the next fragment of the frame,
\* the first one with the header, each with its 2-byte fragment number.
sendVideoFrame ==
    /\ bsock = "open"
    /\ bmc.frameDue
    /\ bwire = <<>>
    /\ ~bmc.started \/ bmc.fsent < bcfg.compressSize
    /\ \E k \in (IF bmc.started THEN 1 ELSE 0)..(bcfg.compressSize - bmc.fsent) :
          /\ LET packet == IvtpPacket(IVTP.CMD_VIDEO_PACKETS, 0,
                               setUint16LE(bmc.frags)
                               \o (IF bmc.started THEN <<>> ELSE VideoHeader(bcfg.compressSize))
                               \o [i \in 1..k |-> FrameByte(bmc.fsent + i)])
             IN  bwire' = <<packet>> /\ bout' = bout \o packet
          /\ bmc' = [bmc EXCEPT !.started = TRUE, !.fsent = bmc.fsent + k,
                                !.frags = bmc.frags + 1]
    /\ UNCHANGED <<cvf, bsock, bcfg, rfbVars, copyVars, auxVars>>

\* Largest number of transport messages a BMC sends without being asked.
MaxUnasked == 1

\* The packets of a BMC that does not wait to be asked: the power status, the
\* answer to a validation, a first video packet holding a whole frame of one
\* byte, and a video packet that continues a frame.
UnaskedPackets ==
    {sendPowerStatus, sendValidationResponse,
     IvtpPacket(IVTP.CMD_VIDEO_PACKETS, 0, setUint16LE(0) \o VideoHeader(1) \o <<FrameByte(1)>>),
     IvtpPacket(IVTP.CMD_VIDEO_PACKETS, 0, setUint16LE(1) \o <<FrameByte(2)>>)}

\* A BMC on an open connection sends a transport message of one or two
\* packets, whatever the client has sent so far.
bmcSendsUnasked ==
    /\ bsock = "open"
    /\ bmc.opened
    /\ bmc.unasked < MaxUnasked
    /\ \E p \in UnaskedPackets, q \in UnaskedPackets \cup {<<>>} :
          bwire' = bwire \o <<p \o q>> /\ bout' = bout \o p \o q
    /\ bmc' = [bmc EXCEPT !.unasked = bmc.unasked + 1]
    /\ UNCHANGED <<cvf, bsock, bcfg, rfbVars, copyVars, auxVars>>

\* ------------------------------------------------- decodeCopyRect on its own
\* Largest framebuffer width and height decodeCopyRect is called on.
MaxCopyDim == 3

\* A framebuffer whose bytes all differ.
DistinctBuffer(w, h) == [k \in 1..(w * h * 4) |-> k]

decodeCopyRect_call ==
    /\ copyOut = <<>>
    /\ copyOut' = decodeCopyRect(copyIn.rect, copyIn.framebuffer, copyIn.fbWidth)
    /\ UNCHANGED <<copyIn, rfbVars, ivtpVars, auxVars>>

\* ------------------------------------------------------------ fetchDecoder
\* The hosts and session cookies fetchDecoder is called with.
Hosts == {"bmc1", "bmc2"}
Cookies == {"s1", "s2"}

\* A factory: its identity, and what a decoder it makes exposes.
NoFactory == [id |-> 0, setImageBuffer |-> FALSE, decode |-> FALSE]

\* What the BMC answers the request for decode_worker.js with: no answer at
\* all, a status other than 2xx, or a source that does not run, that defines a
\* Decoder lacking a method, or that defines a whole Decoder.
Responses ==
    {[status |-> 0, source |-> "unreachable"], [status |-> 500, source |-> "none"]}
    \cup {[status |-> 200, source |-> k] : k \in {"invalid", "noSetImageBuffer", "decoder"}}

\* res.ok
ok(status) == status \in 200..299

\* A test that asks for decode only.
usableWithDecode(test) == test.decode

\* typeof test.setImageBuffer === "function" && typeof test.decode === "function"
usable(test) == test.setImageBuffer /\ test.decode

\* The decoder the factory made from a source produces.
Decoder(source) ==
    [setImageBuffer |-> source = "decoder",
     decode |-> source \in {"decoder", "noSetImageBuffer"}]

\* fetchDecoder(host, sessionCookie) up to its first await: the cached factory
\* is returned, or the request is made.
fetchDecoder_call ==
    /\ Len(fetches) < MaxFetches
    /\ \E host \in Hosts, sessionCookie \in Cookies :
          LET cached == decoderCache[host]
              call == [host |-> host, began |-> events + 1,
                       ended |-> 0, fetched |-> FALSE, pc |-> "fetch", status |-> 0,
                       source |-> "none", factory |-> NoFactory, err |-> ""]
          IN  fetches' = Append(fetches,
                                IF cached.id # 0
                                THEN [call EXCEPT !.pc = "returned", !.factory = cached,
                                                  !.ended = events + 1]
                                ELSE [call EXCEPT !.fetched = TRUE])
    /\ events' = events + 1
    /\ UNCHANGED <<decoderCache, made, clears, tokVars, desVars, ovhVars, toolVars, capVars, httpVars, rfbVars, ivtpVars, copyVars>>

\* fetch has settled: it threw, the status is not ok, or res.text() is awaited.
fetchDecoder_response ==
    /\ \E i \in 1..Len(fetches), res \in Responses :
          /\ fetches[i].pc = "fetch"
          /\ fetches' =
                [fetches EXCEPT ![i] =
                    IF res.source = "unreachable"
                    THEN [@ EXCEPT !.pc = "failed", !.err = "fetch", !.ended = events + 1]
                    ELSE IF ~ok(res.status)
                    THEN [@ EXCEPT !.pc = "failed", !.err = "Failed to fetch decoder",
                                   !.status = res.status, !.ended = events + 1]
                    ELSE [@ EXCEPT !.pc = "text", !.status = res.status,
                                   !.source = res.source]]
          /\ events' = IF fetches'[i].pc = "failed" THEN events + 1 ELSE events
    /\ UNCHANGED <<decoderCache, made, clears, tokVars, desVars, ovhVars, toolVars, capVars, httpVars, rfbVars, ivtpVars, copyVars>>

\* res.text() has settled: the factory is made from the source and tried, and
\* stored in the cache when its decoder is usable.
fetchDecoder_text ==
    /\ \E i \in 1..Len(fetches) :
          LET call == fetches[i]
              factory == [id |-> made + 1] @@ Decoder(call.source)
          IN  /\ call.pc = "text"
              /\ IF call.source = "invalid"
                 THEN /\ fetches' = [fetches EXCEPT ![i] =
                                        [@ EXCEPT !.pc = "failed", !.ended = events + 1,
                                                  !.err = "Failed to initialize decoder"]]
                      /\ UNCHANGED <<decoderCache, made>>
                 ELSE IF ~usable(factory)
                 THEN /\ fetches' = [fetches EXCEPT ![i] =
                                        [@ EXCEPT !.pc = "failed", !.ended = events + 1,
                                                  !.err = "Failed to initialize decoder"]]
                      /\ made' = made + 1
                      /\ UNCHANGED decoderCache
                 ELSE /\ fetches' = [fetches EXCEPT ![i] =
                                        [@ EXCEPT !.pc = "returned", !.ended = events + 1,
                                                  !.factory = factory]]
                      /\ made' = made + 1
                      /\ decoderCache' = [decoderCache EXCEPT ![call.host] = factory]
    /\ events' = events + 1
    /\ UNCHANGED <<clears, tokVars, desVars, ovhVars, toolVars, capVars, httpVars, rfbVars, ivtpVars, copyVars>>

\* clearDecoderCache()
clearDecoderCache ==
    /\ Cardinality(clears) < MaxClears
    /\ decoderCache' = [h \in Hosts |-> NoFactory]
    /\ events' = events + 1
    /\ clears' = clears \cup {events + 1}
    /\ UNCHANGED <<fetches, made, tokVars, desVars, ovhVars, toolVars, capVars, httpVars, rfbVars, ivtpVars, copyVars>>

\* The module as loaded: an empty cache and no call made.
\* ------------------------------------- captureKvmScreenshot: the KVM token
Callers == 1..MaxShots

NoSession == [sessionCookie |-> "", kvmToken |-> 0]

IdleShot == [pc |-> "idle", session |-> NoSession, presented |-> 0, err |-> ""]

\* What the viewer page yields for QSESSIONID: a cookie, or nothing at all.
ViewerPages == {"QSESSIONID", ""}

TokenStatuses == {200, 503}

\* captureKvmScreenshot(viewerUrl) is called; establishBmcSession awaits the
\* viewer page.
captureKvmScreenshot_call(c) ==
    /\ kshot[c].pc = "idle"
    /\ kshot' = [kshot EXCEPT ![c].pc = "viewer"]
    /\ UNCHANGED <<bmcApi, decVars, desVars, ovhVars, toolVars, capVars, httpVars, rfbVars, ivtpVars, copyVars>>

\* The viewer page has arrived: the session cookie is extracted, or the call
\* fails; then /viewer.html is awaited.
establishBmcSession_viewer(c) ==
    /\ kshot[c].pc = "viewer"
    /\ \E sessionCookie \in ViewerPages :
          kshot' = [kshot EXCEPT ![c] =
                       IF sessionCookie = ""
                       THEN [@ EXCEPT !.pc = "failed",
                                      !.err = "Failed to extract QSESSIONID from BMC viewer page"]
                       ELSE [@ EXCEPT !.pc = "activate",
                                      !.session.sessionCookie = sessionCookie]]
    /\ UNCHANGED <<bmcApi, decVars, desVars, ovhVars, toolVars, capVars, httpVars, rfbVars, ivtpVars, copyVars>>

\* /viewer.html has settled (a failure is swallowed); /api/kvm/token is awaited.
establishBmcSession_activate(c) ==
    /\ kshot[c].pc = "activate"
    /\ kshot' = [kshot EXCEPT ![c].pc = "token"]
    /\ UNCHANGED <<bmcApi, decVars, desVars, ovhVars, toolVars, capVars, httpVars, rfbVars, ivtpVars, copyVars>>

\* /api/kvm/token answers.  With status 200 the BMC has generated a new token,
\* which invalidates the one it issued before; the session is returned and
\* captureVideoFrame opens the WebSocket.
fetchKvmToken(c) ==
    /\ kshot[c].pc = "token"
    /\ \E status \in TokenStatuses :
          IF status # 200
          THEN /\ kshot' = [kshot EXCEPT ![c].pc = "failed",
                                         ![c].err = "Failed to get KVM token"]
               /\ UNCHANGED bmcApi
          ELSE /\ bmcApi' = [issued |-> bmcApi.issued + 1, valid |-> bmcApi.issued + 1]
               /\ kshot' = [kshot EXCEPT ![c].pc = "ws",
                                         ![c].session.kvmToken = bmcApi.issued + 1]
    /\ UNCHANGED <<decVars, desVars, ovhVars, toolVars, capVars, httpVars, rfbVars, ivtpVars, copyVars>>

\* The socket is open and the BMC has allowed the connection: the packet
\* VALIDATE_VIDEO_SESSION carries session.kvmToken.
\* The BMC accepts the token it issued last, once.
validateVideoSession(c) ==
    /\ kshot[c].pc = "ws"
    /\ LET token == kshot[c].session.kvmToken
       IN  IF token = bmcApi.valid
           THEN /\ kshot' = [kshot EXCEPT ![c].pc = "validated", ![c].presented = token]
                /\ bmcApi' = [bmcApi EXCEPT !.valid = 0]
           ELSE /\ kshot' = [kshot EXCEPT ![c].pc = "failed", ![c].presented = token,
                                          ![c].err = "KVM session validation failed"]
                /\ UNCHANGED bmcApi
    /\ UNCHANGED <<decVars, desVars, ovhVars, toolVars, capVars, httpVars, rfbVars, ivtpVars, copyVars>>

TokInit ==
    /\ kshot = [c \in Callers |-> IdleShot]
    /\ bmcApi = [issued |-> 0, valid |-> 0]

\* ---------------------------------------- desEncryptChallenge on its own
\* Passwords as char codes: empty, shorter than 8, exactly 8, longer than 8,
\* with high bits set.
DesPasswords ==
    {<<>>,
     <<112, 119>>,
     <<112, 97, 115, 115, 119, 111, 114, 100>>,
     <<112, 97, 115, 115, 119, 111, 114, 100, 57>>,
     <<200, 44, 234, 158, 217, 61, 251, 143>>,
     <<1, 2, 4, 8, 16, 32, 64, 128>>,
     <<255>>}

DesBlocks ==
    {<<0, 0, 0, 0, 0, 0, 0, 0>>,
     <<1, 35, 69, 103, 137, 171, 205, 239>>,
     <<255, 255, 255, 255, 255, 255, 255, 255>>,
     <<1, 2, 3, 4, 5, 6, 7, 8>>}

DesChallenges == {a \o b : a, b \in DesBlocks}

NoDesIn == [challenge |-> <<>>, password |-> <<>>]

desEncryptChallenge_call ==
    /\ desIn # NoDesIn
    /\ desOut = <<>>
    /\ desOut' = desEncryptChallenge(desIn.challenge, desIn.password)
    /\ UNCHANGED <<desIn, decVars, tokVars, ovhVars, toolVars, capVars, httpVars, rfbVars, ivtpVars, copyVars>>

DesInit(in) ==
    /\ desIn = in
    /\ desOut = <<>>

\* ------------------------------------------------ OvhProvider.getScreenshot
TaskStatuses == {"cancelled", "customerError", "doing", "done", "init", "ovhError", "todo"}

\* What an OVH API request comes back with: a body, or an error for a
\* status that is not ok.
ApiOk == {TRUE, FALSE}

IdleOvh ==
    [pc |-> "idle", i |-> 0, requests |-> 0, seen |-> <<>>, wait |-> "none",
     access |-> FALSE, capture |-> FALSE, err |-> ""]

failedOvh(st, err) == [st EXCEPT !.pc = "failed", !.err = err]

\* The loop test of waitForTask, taken one attempt late.
morePollsInclusive(i, max) == i <= max

\* for (let i = 0; i < this.pollMaxAttempts; i++)
morePolls(i, max) == i < max

\* waitForTask at its loop test with counter i: the next task-status request
\* goes out, or the loop is over and the task has timed out.
waitForTask_loop(st, i) ==
    IF morePolls(i, pollMaxAttempts)
    THEN [st EXCEPT !.pc = "poll", !.i = i, !.wait = "polling", !.requests = @ + 1]
    ELSE [failedOvh(st, "timed out") EXCEPT !.i = i, !.wait = "timedOut"]

\* getScreenshot(serverId) is called: ensureInit awaits syncTime once, then the
\* access request is posted.
getScreenshot_call ==
    /\ ovh.pc = "idle"
    /\ ovh' = [ovh EXCEPT !.pc = IF initialized THEN "post" ELSE "syncTime"]
    /\ UNCHANGED <<pollMaxAttempts, initialized, decVars, tokVars, desVars, toolVars, capVars, httpVars, rfbVars, ivtpVars, copyVars>>

ensureInit_syncTime ==
    /\ ovh.pc = "syncTime"
    /\ \E isOk \in ApiOk :
          IF isOk
          THEN /\ initialized' = TRUE
               /\ ovh' = [ovh EXCEPT !.pc = "post"]
          ELSE /\ ovh' = failedOvh(ovh, "Failed to sync time")
               /\ UNCHANGED initialized
    /\ UNCHANGED <<pollMaxAttempts, decVars, tokVars, desVars, toolVars, capVars, httpVars, rfbVars, ivtpVars, copyVars>>

\* The POST of the access request has settled; with a task, waitForTask starts.
getScreenshot_post ==
    /\ ovh.pc = "post"
    /\ \E isOk \in ApiOk :
          ovh' = IF isOk THEN waitForTask_loop(ovh, 0) ELSE failedOvh(ovh, "OVH API POST")
    /\ UNCHANGED <<pollMaxAttempts, initialized, decVars, tokVars, desVars, toolVars, capVars, httpVars, rfbVars, ivtpVars, copyVars>>

\* A task-status request has settled.  done returns from waitForTask, and
\* getScreenshot requests the viewer URL; a failed task throws; any other
\* status sleeps for pollInterval.
waitForTask_status ==
    /\ ovh.pc = "poll"
    /\ \E isOk \in ApiOk, status \in TaskStatuses :
          ovh' = IF ~isOk
                 THEN [failedOvh(ovh, "OVH API GET") EXCEPT !.wait = "apiError"]
                 ELSE LET st == [ovh EXCEPT !.seen = Append(@, status)]
                      IN  IF status = "done"
                          THEN [st EXCEPT !.pc = "access", !.wait = "done", !.access = TRUE]
                          ELSE IF status \in {"cancelled", "customerError", "ovhError"}
                          THEN [failedOvh(st, status) EXCEPT !.wait = "failed"]
                          ELSE [st EXCEPT !.pc = "sleep"]
    /\ UNCHANGED <<pollMaxAttempts, initialized, decVars, tokVars, desVars, toolVars, capVars, httpVars, rfbVars, ivtpVars, copyVars>>

\* The pollInterval timer fires: i++ and the loop test.
waitForTask_sleep ==
    /\ ovh.pc = "sleep"
    /\ ovh' = waitForTask_loop(ovh, ovh.i + 1)
    /\ UNCHANGED <<pollMaxAttempts, initialized, decVars, tokVars, desVars, toolVars, capVars, httpVars, rfbVars, ivtpVars, copyVars>>

\* The viewer URL request has settled; captureKvmScreenshot starts.
getScreenshot_access ==
    /\ ovh.pc = "access"
    /\ \E isOk \in ApiOk :
          ovh' = IF isOk THEN [ovh EXCEPT !.pc = "capture", !.capture = TRUE]
                 ELSE failedOvh(ovh, "OVH API GET")
    /\ UNCHANGED <<pollMaxAttempts, initialized, decVars, tokVars, desVars, toolVars, capVars, httpVars, rfbVars, ivtpVars, copyVars>>

\* captureKvmScreenshot has settled: result.png is returned, or it threw.
getScreenshot_capture ==
    /\ ovh.pc = "capture"
    /\ \E isOk \in ApiOk :
          ovh' = IF isOk THEN [ovh EXCEPT !.pc = "returned"] ELSE failedOvh(ovh, "capture")
    /\ UNCHANGED <<pollMaxAttempts, initialized, decVars, tokVars, desVars, toolVars, capVars, httpVars, rfbVars, ivtpVars, copyVars>>

OvhInit(max) ==
    /\ pollMaxAttempts = max
    /\ initialized = FALSE
    /\ ovh = IdleOvh

\* ------------------------------------------------- optimizeForLlm, the tool
DEFAULT_SCALE == 2
DEFAULT_BRIGHTNESS == 3

\* PNG.sync.write and PNG.sync.read: a PNG file holds the bitmap behind its
\* signature; reading gives the bitmap back.
PngWrite(bitmap) == [signature |-> "PNG", bitmap |-> bitmap]
PngRead(pngBuffer) == pngBuffer.bitmap

\* optimizeForLlm(pngBuffer): every source pixel (x, y), brightened and with
\* alpha 255, fills the scale x scale block at (x * scale, y * scale).
optimizeForLlm(pngBuffer) ==
    LET scale == DEFAULT_SCALE
        brightness == DEFAULT_BRIGHTNESS
        src == PngRead(pngBuffer)
        width == src.width * scale
        height == src.height * scale
        at(di) ==
            LET pixel == di \div 4
                x == (pixel % width) \div scale
                y == (pixel \div width) \div scale
                si == (y * src.width + x) * 4
            IN  IF di % 4 = 3 THEN 255
                ELSE Min(src.data[si + (di % 4) + 1] * brightness, 255)
    IN  PngWrite([width |-> width, height |-> height,
                  data |-> [k \in 1..(width * height * 4) |-> at(k - 1)]])

\* Buffer.toString("base64")
Base64(buffer) == [base64 |-> buffer]

\* The tool returns the optimized image whatever raw is.
outputPngOptimized(raw, png) == optimizeForLlm(png)

\* const outputPng = raw ? png : optimizeForLlm(png)
outputPng(raw, png) == IF raw THEN png ELSE optimizeForLlm(png)

PngPixels == {<<50, 80, 10, 255>>, <<100, 200, 255, 0>>, <<0, 0, 0, 255>>}

Bitmaps ==
    UNION {{[width |-> w, height |-> h,
             data |-> [k \in 1..(w * h * 4) |-> px[((k - 1) \div 4) + 1][((k - 1) % 4) + 1]]] :
               px \in [1..(w * h) -> PngPixels]} :
           w \in 1..MaxPngDim, h \in 1..MaxPngDim}

NoPng == PngWrite([width |-> 0, height |-> 0, data |-> <<>>])

NoResult == [isError |-> FALSE, content |-> <<>>]

IdleTool == [pc |-> "idle", raw |-> FALSE, png |-> NoPng, result |-> NoResult]

\* The arguments as the schema parses them: raw is optional, default false.
RawArguments == {"true", "false", "omitted"}

\* tools/call get_screenshot: the handler awaits provider.getScreenshot.
get_screenshot_call ==
    /\ tool.pc = "idle"
    /\ \E raw \in RawArguments :
          tool' = [tool EXCEPT !.pc = "provider", !.raw = (raw = "true")]
    /\ UNCHANGED <<decVars, tokVars, desVars, ovhVars, capVars, httpVars, rfbVars, ivtpVars, copyVars>>

\* provider.getScreenshot resolves with a PNG: the handler returns the image.
get_screenshot_png ==
    /\ tool.pc = "provider"
    /\ \E bitmap \in Bitmaps :
          LET png == PngWrite(bitmap)
          IN  tool' = [tool EXCEPT
                          !.pc = "done", !.png = png,
                          !.result = [isError |-> FALSE,
                                      content |-> <<[type |-> "image",
                                                     data |-> Base64(outputPng(tool.raw, png)),
                                                     mimeType |-> "image/png"]>>]]
    /\ UNCHANGED <<decVars, tokVars, desVars, ovhVars, capVars, httpVars, rfbVars, ivtpVars, copyVars>>

\* provider.getScreenshot rejects: the handler throws and the caller gets an
\* error result carrying the message as text.
get_screenshot_error ==
    /\ tool.pc = "provider"
    /\ tool' = [tool EXCEPT
                   !.pc = "failed",
                   !.result = [isError |-> TRUE,
                               content |-> <<[type |-> "text", text |-> "IPMI access denied"]>>]]
    /\ UNCHANGED <<decVars, tokVars, desVars, ovhVars, capVars, httpVars, rfbVars, ivtpVars, copyVars>>

ToolInit == tool = IdleTool

DecInit ==
    /\ decoderCache = [h \in Hosts |-> NoFactory]
    /\ fetches = <<>>
    /\ made = 0
    /\ events = 0
    /\ clears = {}

\* ------------------------------------------------- the HTTP entry point
\* The value of the mcp-session-id header: 0 for a request without it, an id
\* that crypto.randomUUID() generates, or an id it never generates.
SessionIds == 0..(MaxSessions + 1)
Methods == {"POST", "GET", "DELETE", "PUT"}
\* The JSON-RPC message of a POST: an initialize request or another one.
Bodies == {"initialize", "other"}

\* A transport as constructed: no session id, not closed; req is the body of
\* the request that waits for mcpServer.connect(transport).
NewTransport(body) == [sessionId |-> 0, closed |-> FALSE, req |-> body]

\* sessionId ? transports.get(sessionId) : undefined, 0 standing for undefined.
existing(sessionId) == IF sessionId # 0 THEN http.transports[sessionId] ELSE 0

\* The answer to a request: its number, what it was, the transport whose
\* handleRequest it was given to (0 for none) and the status of the response.
Answer(method, sessionId, routed, status) ==
    [n |-> http.n + 1, method |-> method, sessionId |-> sessionId, routed |-> routed,
     status |-> status]

\* An onclose that leaves the session map as it is.
oncloseKeeping(transports, sessionId) == transports

\* transport.onclose: if (transport.sessionId) transports.delete(transport.sessionId).
onclose(transports, sessionId) ==
    IF sessionId # 0 THEN [transports EXCEPT ![sessionId] = 0] ELSE transports

\* A request whose session id is in the map, handled by the transport of the
\* session: a POST or a GET is answered, a DELETE closes the transport, which
\* calls onclose.
mcp_existing ==
    /\ http.n < MaxRequests
    /\ \E method \in {"POST", "GET", "DELETE"}, sessionId \in SessionIds :
          LET t == existing(sessionId)
          IN  /\ t # 0
              /\ http' = [http EXCEPT
                    !.n = http.n + 1,
                    !.last = Answer(method, sessionId, t, 200),
                    !.made = IF method = "DELETE" THEN [@ EXCEPT ![t].closed = TRUE] ELSE @,
                    !.transports = IF method = "DELETE"
                                   THEN onclose(@, http.made[t].sessionId) ELSE @]
    /\ UNCHANGED <<decVars, tokVars, desVars, ovhVars, toolVars, capVars, rfbVars, ivtpVars, copyVars>>

\* A POST without a session id in the map: an McpServer and a transport are
\* made, and the handler awaits mcpServer.connect(transport).
mcp_post_new ==
    /\ http.n < MaxRequests
    /\ Len(http.made) < MaxTransports
    /\ \E sessionId \in SessionIds, body \in Bodies :
          /\ existing(sessionId) = 0
          /\ http' = [http EXCEPT !.n = http.n + 1,
                                  !.made = Append(@, NewTransport(body)),
                                  !.last = Answer("POST", sessionId, 0, 0)]
    /\ UNCHANGED <<decVars, tokVars, desVars, ovhVars, toolVars, capVars, rfbVars, ivtpVars, copyVars>>

\* The next session id of sessionIdGenerator: one that no session has yet.
randomUUID == 1 + Cardinality({t \in 1..Len(http.made) : http.made[t].sessionId # 0})

\* transport.handleRequest(req) of a new transport, after connect: an
\* initialize request gives the transport its session id and calls
\* onsessioninitialized, which puts the transport into the map; any other
\* request is answered with 400 by the transport.
mcp_post_handle ==
    /\ \E t \in 1..Len(http.made) :
          /\ http.made[t].req # "none"
          /\ IF http.made[t].req = "initialize"
             THEN /\ randomUUID <= MaxSessions
                  /\ http' = [http EXCEPT
                        !.made[t] = [@ EXCEPT !.sessionId = randomUUID, !.req = "none"],
                        !.transports[randomUUID] = t,
                        !.last = [n |-> http.n, method |-> "POST", sessionId |-> 0,
                                  routed |-> t, status |-> 200]]
             ELSE http' = [http EXCEPT
                        !.made[t].req = "none",
                        !.last = [n |-> http.n, method |-> "POST", sessionId |-> 0,
                                  routed |-> t, status |-> 400]]
    /\ UNCHANGED <<decVars, tokVars, desVars, ovhVars, toolVars, capVars, rfbVars, ivtpVars, copyVars>>

\* Every other request on /mcp: a GET or a DELETE without a session id in the
\* map, or another method: 400 Bad Request.
mcp_badRequest ==
    /\ http.n < MaxRequests
    /\ \E method \in Methods \ {"POST"}, sessionId \in SessionIds :
          /\ ~(existing(sessionId) # 0 /\ method \in {"GET", "DELETE"})
          /\ http' = [http EXCEPT !.n = http.n + 1,
                                  !.last = Answer(method, sessionId, 0, 400)]
    /\ UNCHANGED <<decVars, tokVars, desVars, ovhVars, toolVars, capVars, rfbVars, ivtpVars, copyVars>>

\* main() as it starts to serve: no transport, no request.
HttpInit ==
    http = [transports |-> [sid \in 1..(MaxSessions + 1) |-> 0], made |-> <<>>, n |-> 0,
            last |-> [n |-> 0, method |-> "none", sessionId |-> 0, routed |-> 0, status |-> 0]]

CapInit == rejected = 0

AuxInit == DecInit /\ TokInit /\ DesInit(NoDesIn) /\ OvhInit(0) /\ ToolInit /\ CapInit /\ HttpInit

\* ------------------------------------------------------ RFB: initial states
Password == <<112, 119>>

ServerCfg(version, types, authResult, width, height, mode, colour, closes) ==
    [major |-> version[1], minor |-> version[2], types |-> types, authResult |-> authResult,
     width |-> width, height |-> height, mode |-> mode, colour |-> colour, closes |-> closes,
     prompt |-> mode = "free", splits |-> FALSE, extra |-> <<>>]

\* The servers and passwords a run starts from: every version and offer of
\* security types with one screen, every screen and kind of update with the
\* security the test server defaults to, and a server that drops the connection.
Scenarios ==
    LET Versions == {<<3, 2>>, <<3, 3>>, <<3, 5>>, <<3, 7>>, <<3, 8>>, <<3, 9>>, <<4, 0>>}
        TypeLists == {<<>>, <<1>>, <<2>>, <<1, 2>>, <<2, 1>>, <<16>>, <<16, 2>>}
        first == CHOOSE c \in Palette : TRUE
    IN  {[server |-> ServerCfg(v, t, a, MaxDim, MaxDim, "solid", first, FALSE), password |-> p] :
            v \in Versions, t \in TypeLists, a \in {0, 1}, p \in {<<>>, Password}}
        \cup {[server |-> ServerCfg(v, <<1>>, 0, w, h, "solid", c, FALSE), password |-> <<>>] :
            v \in {<<3, 3>>, <<3, 8>>}, w \in 1..MaxDim, h \in 1..MaxDim, c \in Palette}
        \cup {[server |-> ServerCfg(<<3, 8>>, <<1>>, 0, w, h, "free", first, FALSE), password |-> <<>>] :
            w \in 1..MaxDim, h \in 1..MaxDim}
        \cup {[server |-> ServerCfg(<<3, 8>>, t, 0, 1, 1, "solid", first, TRUE), password |-> p] :
            t \in {<<1>>, <<2>>}, p \in {<<>>, Password}}

\* The client as constructed, facing one of the servers scs.
RfbInit(scs) ==
    /\ ws = "null"
    /\ serverInit = NoServerInit
    /\ framebuffer = NoFramebuffer
    /\ receiveBuffer = <<>>
    /\ rfbPc = "new"
    /\ rfbErr = ""
    /\ loc = NoLoc
    /\ rfbOut = <<>>
    /\ captures = 0
    /\ sock = "none"
    /\ wire = <<>>
    /\ srv = [state |-> "idle", seen |-> 0, cv |-> 0, format |-> PIXEL_FORMAT_RGBA,
              left |-> MaxRects, pending |-> 0]
    /\ \E sc \in scs : /\ cfg = sc.server
                        /\ options = [password |-> sc.password, readTimeout |-> ReadTimeout]
    /\ receiveResolve = FALSE
    /\ timers = {}
    /\ calls = [disconnect |-> 0, close |-> 0, cut |-> FALSE]

\* The caller and the clock: whether the run keeps the time, and whether the
\* client is driven by captureScreenshot ("start") or directly ("none").
CallInit(running, shots) ==
    /\ clock = [running |-> running, now |-> 0]
    /\ shot \in shots

\* captureVideoFrame as called, facing a BMC that answers as b sets.
NoBmc == [opened |-> FALSE, seen |-> 0, frameDue |-> FALSE, started |-> FALSE, fsent |-> 0,
          frags |-> 0, unasked |-> 0]
IvtpInit(called, bs) ==
    /\ cvf = NewCapture
    /\ bsock = IF called THEN "connecting" ELSE "none"
    /\ bwire = <<>>
    /\ bmc = NoBmc
    /\ bout = <<>>
    /\ bcfg \in bs

\* decodeCopyRect about to be called on one of the inputs ins.
CopyInit(ins) ==
    /\ copyIn \in ins
    /\ copyOut = <<>>

NoScenario == {[server |-> ServerCfg(<<3, 8>>, <<1>>, 0, 1, 1, "solid", <<255, 0, 0>>, FALSE),
                password |-> <<>>]}
NoBmcCfg == {[result |-> 1, compressSize |-> 1, splits |-> FALSE, power |-> 0]}
NoCopy == {[framebuffer |-> <<>>, fbWidth |-> 0, rect |-> NoRect]}

Init ==
    RfbInit(Scenarios) /\ CallInit(FALSE, {"none"}) /\ IvtpInit(FALSE, NoBmcCfg) /\ CopyInit(NoCopy)
    /\ AuxInit

Next ==
    \/ connect
    \/ ws_onopen
    \/ ws_onerror
    \/ ws_onclose
    \/ ws_onmessage
    \/ wsConnect_timeout
    \/ waitForBytes_timeout
    \/ handshake_version
    \/ negotiateSecurity38_count
    \/ negotiateSecurity38_refusedLen
    \/ negotiateSecurity38_refused
    \/ negotiateSecurity38_types
    \/ negotiateSecurity38_result
    \/ negotiateSecurity38_failLen
    \/ negotiateSecurity38_fail
    \/ negotiateSecurity33_type
    \/ negotiateSecurity33_refusedLen
    \/ negotiateSecurity33_refused
    \/ performVncAuth_challenge
    \/ readServerInit_header
    \/ readServerInit_name
    \/ capture
    \/ receiveFramebufferUpdate_type
    \/ receiveFramebufferUpdate_deadline
    \/ receiveFramebufferUpdate_header
    \/ receiveRect_header
    \/ receiveRect_raw
    \/ receiveRect_copy
    \/ skipSetColourMap_header
    \/ skipServerCutText_header
    \/ skip_body
    \/ handleOpen
    \/ handleVersion
    \/ handleSecurityChoice
    \/ handleVncAuth
    \/ handleClientInit
    \/ handleClientMessage
    \/ sendRect

Spec == Init /\ [][Next]_vars

\* -------------------------------------------- RfbClient.capture, any caller
\* The RFB runs, with a caller that may call capture() at any time.
NextCapture ==
    \/ Next
    \/ capture_notConnected

SpecCapture == Init /\ [][NextCapture]_vars

\* ------------------------------------------------------- IVTP specification
\* The answers to VALIDATE_VIDEO_SESSION: accepted, rejected as the mock
\* rejects, another value, no payload (-1); and every compressSize.
\* A BMC may send POWER_STATUS more than once for one request.
BmcCfgs ==
    {[result |-> r, compressSize |-> c, splits |-> s, power |-> 0] :
        r \in {1, 0, 2, -1}, c \in 0..MaxCompress, s \in BOOLEAN}
    \cup {[result |-> 1, compressSize |-> c, splits |-> s, power |-> n] :
             c \in {0, MaxCompress}, s \in BOOLEAN, n \in 1..MaxPowerStatus}

InitIvtp ==
    RfbInit(NoScenario) /\ CallInit(FALSE, {"none"}) /\ IvtpInit(TRUE, BmcCfgs) /\ CopyInit(NoCopy)
    /\ AuxInit

NextIvtp ==
    \/ kvm_onopen
    \/ kvm_onmessage
    \/ kvm_onerror
    \/ kvm_onclose
    \/ connectTimer
    \/ frameTimer
    \/ handleWsOpen
    \/ handleWsMessage
    \/ sendVideoFrame

SpecIvtp == InitIvtp /\ [][NextIvtp]_vars

\* captureVideoFrame facing a BMC that also sends what it was not asked for.
NextIvtpUnasked == NextIvtp \/ bmcSendsUnasked

\* The BMCs whose transport delivers every message whole and that answer a
\* request once.
WholeBmcCfgs == {b \in BmcCfgs : ~b.splits /\ b.power = 0}

InitIvtpUnasked ==
    RfbInit(NoScenario) /\ CallInit(FALSE, {"none"}) /\ IvtpInit(TRUE, WholeBmcCfgs)
    /\ CopyInit(NoCopy) /\ AuxInit

SpecIvtpUnasked == InitIvtpUnasked /\ [][NextIvtpUnasked]_vars

\* captureVideoFrame with the clock running: its two timers fire when they are
\* due, and the BMC sends what it likes when it likes.
InitIvtpTimed ==
    RfbInit(NoScenario) /\ CallInit(TRUE, {"none"}) /\ IvtpInit(TRUE, WholeBmcCfgs)
    /\ CopyInit(NoCopy) /\ AuxInit

NextIvtpTimed ==
    \/ kvm_onopen
    \/ kvm_onmessage
    \/ kvm_onerror
    \/ kvm_onclose
    \/ connectTimer_due
    \/ frameTimer_due
    \/ kvm_Tick
    \/ handleWsOpen
    \/ handleWsMessage
    \/ sendVideoFrame
    \/ bmcSendsUnasked

SpecIvtpTimed == InitIvtpTimed /\ [][NextIvtpTimed]_vars

\* --------------------------------------------- decodeCopyRect specification
\* Every framebuffer up to MaxCopyDim each way and every CopyRect whose source
\* and destination rectangles both lie inside it.
CopyInputs ==
    LET D == 1..MaxCopyDim
        Z == 0..(MaxCopyDim - 1)
    IN  {[framebuffer |-> DistinctBuffer(W, H), fbWidth |-> W,
          rect |-> [x |-> x, y |-> y, width |-> w, height |-> h,
                    encoding |-> EncodingType.CopyRect,
                    data |-> setUint16(srcX) \o setUint16(srcY)]] :
            W \in D, H \in D, w \in D, h \in D, x \in Z, y \in Z, srcX \in Z, srcY \in Z}

InitCopy ==
    /\ RfbInit(NoScenario) /\ CallInit(FALSE, {"none"}) /\ IvtpInit(FALSE, NoBmcCfg)
    /\ CopyInit({in \in CopyInputs :
                    LET srcX == getUint16(in.rect.data, 0)
                        srcY == getUint16(in.rect.data, 2)
                        H == Len(in.framebuffer) \div (in.fbWidth * 4)
                    IN  /\ in.rect.x + in.rect.width <= in.fbWidth
                        /\ srcX + in.rect.width <= in.fbWidth
                        /\ in.rect.y + in.rect.height <= H
                        /\ srcY + in.rect.height <= H})
    /\ AuxInit

NextCopy == decodeCopyRect_call

SpecCopy == InitCopy /\ [][NextCopy]_vars

\* Runs that keep the time, over a transport that splits the messages of a
\* server which answers every request with a solid screen, other messages
\* ahead of it.
ExtraLists ==
    LET bell == <<ServerMessageType.Bell>>
        colours == <<ServerMessageType.SetColourMapEntries, 0, 0, 0, 0, 1, 0, 1, 0, 2, 0, 3>>
        text == <<ServerMessageType.ServerCutText, 0, 0, 0, 0, 0, 0, 1, 104>>
    IN  {<<>>, <<text, bell, colours>>}

TimedScenarios ==
    LET first == CHOOSE c \in Palette : TRUE
        server(v, t, e, s) == [ServerCfg(v, t, 0, 1, 1, "solid", first, FALSE)
                                  EXCEPT !.splits = s, !.extra = e]
    IN  {[server |-> server(<<3, 8>>, <<SecurityType.None>>, e, s), password |-> <<>>] :
            e \in ExtraLists, s \in BOOLEAN}
        \cup {[server |-> server(<<3, 3>>, <<SecurityType.None>>, <<>>, s), password |-> <<>>] :
                 s \in BOOLEAN}
        \cup {[server |-> server(<<3, 8>>, <<SecurityType.VncAuth>>, <<>>, s),
               password |-> Password] : s \in BOOLEAN}

InitTimed ==
    RfbInit(TimedScenarios) /\ CallInit(TRUE, {"none"}) /\ IvtpInit(FALSE, NoBmcCfg)
    /\ CopyInit(NoCopy)
    /\ AuxInit

NextTimed ==
    \/ connect
    \/ ws_onopen
    \/ ws_onmessage
    \/ waitForBytes_timeout
    \/ waitForBytes_staleTimer
    \/ Tick
    \/ handshake_version
    \/ negotiateSecurity38_count
    \/ negotiateSecurity38_types
    \/ negotiateSecurity38_result
    \/ negotiateSecurity33_type
    \/ performVncAuth_challenge
    \/ readServerInit_header
    \/ readServerInit_name
    \/ capture
    \/ receiveFramebufferUpdate_type
    \/ receiveFramebufferUpdate_header
    \/ receiveRect_header
    \/ receiveRect_raw
    \/ skipSetColourMap_header
    \/ skipServerCutText_header
    \/ skip_body
    \/ handleOpen
    \/ handleVersion
    \/ handleSecurityChoice
    \/ handleVncAuth
    \/ handleClientInit
    \/ handleClientMessage

SpecTimed == InitTimed /\ [][NextTimed]_vars

\* Runs in which the owner of the client disconnects it, and runs of
\* captureScreenshot, against servers that answer every request with a solid
\* screen or close the connection; timers fire at any moment.
CallScenarios ==
    LET first == CHOOSE c \in Palette : TRUE
    IN  {[server |-> ServerCfg(<<3, 8>>, <<SecurityType.None>>, 0, 1, 1, "solid", first, c),
          password |-> <<>>] : c \in BOOLEAN}

InitCalls ==
    RfbInit(CallScenarios) /\ CallInit(FALSE, {"none", "start"}) /\ IvtpInit(FALSE, NoBmcCfg)
    /\ CopyInit(NoCopy)
    /\ AuxInit

NextCalls ==
    \/ connect
    \/ capture
    \/ disconnect
    \/ captureScreenshot_connect
    \/ captureScreenshot_capture
    \/ captureScreenshot_finally
    \/ ws_onopen
    \/ ws_onerror
    \/ ws_onclose
    \/ ws_onmessage
    \/ wsConnect_timeout
    \/ waitForBytes_timeout
    \/ handshake_version
    \/ negotiateSecurity38_count
    \/ negotiateSecurity38_types
    \/ negotiateSecurity38_result
    \/ readServerInit_header
    \/ readServerInit_name
    \/ receiveFramebufferUpdate_type
    \/ receiveFramebufferUpdate_header
    \/ receiveRect_header
    \/ receiveRect_raw
    \/ handleOpen
    \/ handleVersion
    \/ handleSecurityChoice
    \/ handleClientInit
    \/ handleClientMessage

\* A timer that is due fires.
SpecCalls == InitCalls /\ [][NextCalls]_vars /\ WF_vars(waitForBytes_timeout)

\* Calls of fetchDecoder and clearDecoderCache in any order, the calls
\* overlapping as their awaits allow.
InitDecoder ==
    RfbInit(NoScenario) /\ CallInit(FALSE, {"none"}) /\ IvtpInit(FALSE, NoBmcCfg)
    /\ CopyInit(NoCopy) /\ AuxInit

NextDecoder ==
    \/ fetchDecoder_call
    \/ fetchDecoder_response
    \/ fetchDecoder_text
    \/ clearDecoderCache

SpecDecoder == InitDecoder /\ [][NextDecoder]_vars

\* ------------------------------------------------ KVM token specification
InitToken ==
    /\ RfbInit(NoScenario) /\ CallInit(FALSE, {"none"}) /\ IvtpInit(FALSE, NoBmcCfg)
    /\ CopyInit(NoCopy) /\ AuxInit

NextToken ==
    \E c \in Callers :
        \/ captureKvmScreenshot_call(c)
        \/ establishBmcSession_viewer(c)
        \/ establishBmcSession_activate(c)
        \/ fetchKvmToken(c)
        \/ validateVideoSession(c)

SpecToken == InitToken /\ [][NextToken]_vars

\* -------------------------------------- desEncryptChallenge specification
InitDes ==
    /\ RfbInit(NoScenario) /\ CallInit(FALSE, {"none"}) /\ IvtpInit(FALSE, NoBmcCfg)
    /\ CopyInit(NoCopy) /\ DecInit /\ TokInit /\ OvhInit(0) /\ ToolInit /\ CapInit /\ HttpInit
    /\ \E challenge \in DesChallenges, password \in DesPasswords :
          DesInit([challenge |-> challenge, password |-> password])

NextDes == desEncryptChallenge_call

SpecDes == InitDes /\ [][NextDes]_vars

\* ------------------------------------------------ OvhProvider specification
InitOvh ==
    /\ RfbInit(NoScenario) /\ CallInit(FALSE, {"none"}) /\ IvtpInit(FALSE, NoBmcCfg)
    /\ CopyInit(NoCopy) /\ DecInit /\ TokInit /\ DesInit(NoDesIn) /\ ToolInit /\ CapInit /\ HttpInit
    /\ \E max \in 0..MaxPollAttempts : OvhInit(max)

NextOvh ==
    \/ getScreenshot_call
    \/ ensureInit_syncTime
    \/ getScreenshot_post
    \/ waitForTask_status
    \/ waitForTask_sleep
    \/ getScreenshot_access
    \/ getScreenshot_capture

\* Every request is answered or fails, and the poll timer fires.
SpecOvh == InitOvh /\ [][NextOvh]_vars /\ WF_vars(NextOvh)

\* ------------------------------------------- get_screenshot specification
InitTool ==
    /\ RfbInit(NoScenario) /\ CallInit(FALSE, {"none"}) /\ IvtpInit(FALSE, NoBmcCfg)
    /\ CopyInit(NoCopy) /\ AuxInit

NextTool ==
    \/ get_screenshot_call
    \/ get_screenshot_png
    \/ get_screenshot_error

SpecTool == InitTool /\ [][NextTool]_vars

\* ------------------------------------------- HTTP entry point specification
InitHttp ==
    /\ RfbInit(NoScenario) /\ CallInit(FALSE, {"none"}) /\ IvtpInit(FALSE, NoBmcCfg)
    /\ CopyInit(NoCopy) /\ AuxInit

NextHttp ==
    \/ mcp_existing
    \/ mcp_post_new
    \/ mcp_post_handle
    \/ mcp_badRequest

SpecHttp == InitHttp /\ [][NextHttp]_vars





\* =================================================================== claims
\* Pixel i (0-based) of the client's framebuffer.
PixelAt(i) == SubSeq(framebuffer.pixels, 4 * i + 1, 4 * i + 4)

\* C1: connect() then capture() against a server that answers the full-screen
\* request with one Raw rectangle covering the screen, in the requested 32-bit
\* format and of the solid colour (r,g,b): the framebuffer capture() returns
\* has width*height*4 bytes and every pixel is (r,g,b,255).
C1_SolidCapture ==
    (rfbPc = "captured" /\ cfg.mode = "solid") =>
        /\ serverInit.width = cfg.width
        /\ serverInit.height = cfg.height
        /\ Len(framebuffer.pixels) = cfg.width * cfg.height * 4
        /\ \A i \in 0..(cfg.width * cfg.height - 1) : PixelAt(i) = cfg.colour \o <<255>>

C1_Witness ==
    /\ rfbPc = "captured"
    /\ cfg.mode = "solid"
    /\ cfg.colour = <<10, 20, 30>>
    /\ cfg.width = MaxDim
    /\ cfg.height = MaxDim

\* The version a server line offers and the client's reply, as pairs.
Offered == <<cfg.major, cfg.minor>>
Replied == <<parseInt3(rfbOut[1], 5), parseInt3(rfbOut[1], 9)>>
VersionLeq(a, b) == a[1] < b[1] \/ (a[1] = b[1] /\ a[2] <= b[2])

OfferedTypes == {loc.types[k] : k \in 1..Len(loc.types)}
TypesRead == usesSecurity38(loc.serverMajor, loc.serverMinor) /\ loc.types # <<>>

\* C3: for a server of version 3.7 or higher offering the types S, over a
\* socket that is open: None is selected when it is in S, whatever the order;
\* otherwise VncAuth when it is in S and a password was supplied; in every
\* other case connect() fails in the security negotiation and no selection
\* byte is sent.
C3_SecuritySelection ==
    (TypesRead /\ rfbErr # "WebSocket not connected") =>
        IF SecurityType.None \in OfferedTypes
        THEN Len(rfbOut) >= 2 /\ rfbOut[2] = <<SecurityType.None>>
        ELSE IF SecurityType.VncAuth \in OfferedTypes /\ options.password # <<>>
        THEN Len(rfbOut) >= 2 /\ rfbOut[2] = <<SecurityType.VncAuth>>
        ELSE /\ rfbPc = "failed"
             /\ rfbErr \in {"Server requires VNC authentication but no password provided",
                            "No supported security types"}
             /\ Len(rfbOut) = 1

C3_Witness ==
    /\ loc.types = <<SecurityType.VncAuth, SecurityType.None>>
    /\ options.password # <<>>
    /\ Len(rfbOut) >= 2
    /\ rfbOut[2] = <<SecurityType.None>>

\* connect() is suspended in readBytes for bytes that are not on their way:
\* the server has handled everything the client sent and waits for the client.
Stalled ==
    /\ sock = "open"
    /\ serverInit.isNull
    /\ awaited >= 0
    /\ ~CanRead(awaited)
    /\ Quiet
    /\ srv.state \in {"security", "vnc-auth", "init", "ready"}

\* C4: against a server that follows the protocol of the version it
\* advertises, 3.3, 3.7 or 3.8, and uses security type None, connect() never
\* waits for a message that server does not send.
C4_NoStall ==
    (Offered \in {<<3, 3>>, <<3, 7>>, <<3, 8>>} /\ cfg.types = <<SecurityType.None>>)
        => ~Stalled

\* C10: once the handshake has completed the framebuffer has
\* ServerInit.width * ServerInit.height * 4 bytes, after every rectangle the
\* server sends, Raw or CopyRect, well-formed or not, and so when capture()
\* returns it.
C10_FramebufferLength ==
    /\ rfbPc \in {"connected", "update_type", "update_header", "rect_header", "rect_raw",
                  "rect_copy", "colourMap_header", "colourMap_body", "cutText_header",
                  "cutText_body", "captured"} => ~framebuffer.isNull
    /\ ~framebuffer.isNull =>
           Len(framebuffer.pixels) = serverInit.width * serverInit.height * 4

C10_Witness ==
    /\ rfbErr = "RangeError"
    /\ ~framebuffer.isNull
    /\ framebuffer.pixels # Zeros(Len(framebuffer.pixels))

\* Pixel (px, py) of a framebuffer fbWidth pixels wide.
PixelOf(buf, fbWidth, px, py) ==
    SubSeq(buf, (py * fbWidth + px) * 4 + 1, (py * fbWidth + px) * 4 + 4)

\* C11 as stated: a Raw or CopyRect rectangle that reaches beyond the right or
\* the bottom edge of the framebuffer is never applied, and a rectangle that
\* is applied changes no pixel outside its declared region.
C11_AsStated ==
    [][ (rfbPc \in {"rect_raw", "rect_copy"} /\ framebuffer'.pixels # framebuffer.pixels) =>
            LET r == loc.rect
                W == serverInit.width
                H == serverInit.height
            IN  /\ r.x + r.width <= W
                /\ r.y + r.height <= H
                /\ \A px \in 0..(W - 1), py \in 0..(H - 1) :
                       (px >= r.x /\ px < r.x + r.width /\ py >= r.y /\ py < r.y + r.height)
                       \/ PixelOf(framebuffer'.pixels, W, px, py)
                              = PixelOf(framebuffer.pixels, W, px, py) ]_vars

\* C13: a rectangle whose encoding is neither Raw (0) nor CopyRect (1), once
\* capture() reads its header, fails capture() with an unsupported-encoding
\* error, and capture() returns no framebuffer for that update.
C13_UnsupportedEncoding ==
    loc.rect.encoding \notin {EncodingType.Raw, EncodingType.CopyRect} =>
        /\ rfbPc = "failed"
        /\ rfbErr = "Unsupported encoding"

C13_Witness ==
    /\ rfbErr = "Unsupported encoding"
    /\ loc.rect.encoding = -239
    /\ loc.numRects = 2
    /\ loc.i = 1

\* ------------------------------------------------------------ IVTP claims
\* Entry i of the log is the handling of a packet of the given type.
Received(i, type) == cvf.log[i].k = "recv" /\ cvf.log[i].type = type
\* Entry i of the log is the sending of msg.
Sent(i, msg) == cvf.log[i].k = "send" /\ cvf.log[i].msg = msg
\* The header of the packet at offset o of a sent message.
HeaderAt(msg, o) == parseIvtpHeader(SubSeq(msg, o + 1, o + 8))
\* msg is CONNECTION_COMPLETE (status 1), VALIDATE_VIDEO_SESSION with a
\* 373-byte payload and RESUME_REDIRECTION (status 0), in that order.
IsAuthPacket(msg) ==
    /\ Len(msg) = 8 + 8 + 373 + 8
    /\ HeaderAt(msg, 0) = [type |-> 58, pktsize |-> 0, status |-> 1]
    /\ HeaderAt(msg, 8).type = 18
    /\ HeaderAt(msg, 8).pktsize = 373
    /\ HeaderAt(msg, 389) = [type |-> 6, pktsize |-> 0, status |-> 0]

\* C5: against a conforming BMC nothing is sent before CONNECTION_ALLOWED is
\* received; on it the client sends CONNECTION_COMPLETE, VALIDATE_VIDEO_SESSION
\* and RESUME_REDIRECTION in that order; the POWER_STATUS request is sent only
\* after VALIDATED_VIDEO_SESSION with result 1; RESUME_REDIRECTION and then
\* GET_FULL_SCREEN are sent only after the POWER_STATUS reply.
C5_HandshakeOrder ==
    \A i \in 1..Len(cvf.log) :
        cvf.log[i].k = "send" =>
            /\ \E j \in 1..(i - 1) : Received(j, 23)
            /\ \/ /\ IsAuthPacket(cvf.log[i].msg)
                  /\ Received(i - 1, 23)
               \/ /\ cvf.log[i].msg = <<34, 0, 0, 0, 0, 0, 0, 0>>
                  /\ Received(i - 1, 19)
                  /\ cvf.log[i - 1].payload # <<>>
                  /\ cvf.log[i - 1].payload[1] = 1
               \/ /\ cvf.log[i].msg = <<6, 0, 0, 0, 0, 0, 0, 0>>
                  /\ Received(i - 1, 34)
                  /\ i < Len(cvf.log)
                  /\ Sent(i + 1, <<11, 0, 0, 0, 0, 0, 0, 0>>)
               \/ /\ cvf.log[i].msg = <<11, 0, 0, 0, 0, 0, 0, 0>>
                  /\ i > 2
                  /\ Sent(i - 1, <<6, 0, 0, 0, 0, 0, 0, 0>>)
                  /\ Received(i - 2, 34)

C5_Witness ==
    /\ Len(cvf.sent) = 4
    /\ cvf.sent[4] = <<11, 0, 0, 0, 0, 0, 0, 0>>

\* C6: a VALIDATED_VIDEO_SESSION whose first payload byte is not 1, or that
\* has no payload, fails the capture with a session validation failure; the
\* POWER_STATUS request is not sent in response and no frame is returned.
C6_ValidationRejected ==
    \A i \in 1..Len(cvf.log) :
        (Received(i, 19) /\ (cvf.log[i].payload = <<>> \/ cvf.log[i].payload[1] # 1)) =>
            /\ cvf.outcome.kind = "rejected"
            /\ cvf.outcome.err = "KVM session validation failed"
            /\ \A j \in (i + 1)..Len(cvf.log) : ~Sent(j, <<34, 0, 0, 0, 0, 0, 0, 0>>)

C6_Witness ==
    /\ bcfg.result = -1
    /\ \E i \in 1..Len(cvf.log) : Received(i, 19) /\ cvf.log[i].payload = <<>>
    /\ cvf.outcome.err = "KVM session validation failed"

\* C7 as stated: the running total of compressed bytes never decreases, and
\* once the first packet's header is read the frame is sealed exactly when the
\* total has reached the declared compressSize, for every compressSize
\* including 0 (a capture that a timer or the socket has failed aside).
C7_AsStated ==
    [][ /\ cvf'.receivedCompressedBytes >= cvf.receivedCompressedBytes
        /\ (~cvf'.isFirstPacket /\ cvf'.outcome.kind # "rejected") =>
               (cvf'.outcome.kind = "resolved"
                   <=> cvf'.receivedCompressedBytes >= cvf'.compressSize) ]_vars

\* C8 as stated: once every fragment of a frame whose fragments sum to its
\* compressSize (here 1 or more) has been delivered, exactly one VideoFrame is
\* sealed and its chunks concatenated are the fragments' bytes in arrival
\* order, compressSize of them (a capture that a timer or the socket has
\* failed aside).
C8_AsStated ==
    (/\ bcfg.compressSize >= 1
     /\ bmc.started
     /\ bmc.fsent = bcfg.compressSize
     /\ bwire = <<>>
     /\ cvf.outcome.kind # "rejected") =>
        /\ cvf.outcome.kind = "resolved"
        /\ cvf.outcome.frame.compressSize = bcfg.compressSize
        /\ Concat(cvf.compressedChunks) = [i \in 1..bcfg.compressSize |-> FrameByte(i)]

\* ------------------------------------------------------ decodeCopyRect claim
\* C9 as stated: after decodeCopyRect the destination rectangle equals the
\* source rectangle as it was before the call, wherever the two lie, and no
\* byte outside the destination rectangle has changed.
C9_AsStated ==
    copyOut # <<>> =>
        LET r == copyIn.rect
            W == copyIn.fbWidth
            H == Len(copyIn.framebuffer) \div (W * 4)
            srcX == getUint16(r.data, 0)
            srcY == getUint16(r.data, 2)
        IN  \A px \in 0..(W - 1), py \in 0..(H - 1) :
                IF px >= r.x /\ px < r.x + r.width /\ py >= r.y /\ py < r.y + r.height
                THEN PixelOf(copyOut, W, px, py)
                         = PixelOf(copyIn.framebuffer, W, srcX + (px - r.x), srcY + (py - r.y))
                ELSE PixelOf(copyOut, W, px, py) = PixelOf(copyIn.framebuffer, W, px, py)

\* What the server sent and the client has not consumed yet.
Unread == receiveBuffer \o Concat(wire)

\* C12: SetColourMapEntries, Bell and ServerCutText arriving while capture()
\* waits for an update are consumed in full and leave the framebuffer as it
\* was: each time the loop reads a message type, what is unread is some of the
\* skipped messages from the first byte of one of them, followed by the
\* FramebufferUpdate, and the capture returns the framebuffer it would have
\* returned had they not been sent.
C12_SkippedMessages ==
    (cfg.mode = "solid" /\ cfg.extra # <<>>) =>
        /\ (rfbPc = "update_type" /\ Unread # <<>>) =>
              \E j \in 1..(Len(cfg.extra) + 1) :
                 Unread = Concat(SubSeq(cfg.extra, j, Len(cfg.extra)))
                          \o sendFramebufferUpdate(0, 0, cfg.width, cfg.height)
        /\ (rfbPc \in {"update_type", "colourMap_header", "colourMap_body",
                        "cutText_header", "cutText_body"}) =>
              framebuffer.pixels = (IF captures = 1
                                    THEN Zeros(cfg.width * cfg.height * 4)
                                    ELSE [k \in 1..(cfg.width * cfg.height * 4) |->
                                             (cfg.colour \o <<255>>)[((k - 1) % 4) + 1]])
        /\ rfbPc = "captured" =>
              /\ \A i \in 0..(cfg.width * cfg.height - 1) : PixelAt(i) = cfg.colour \o <<255>>
              /\ Unread = <<>>

C12_Witness ==
    /\ rfbPc = "captured"
    /\ Len(cfg.extra) = 3
    /\ cfg.extra[1][1] = ServerMessageType.ServerCutText
    /\ cfg.extra[2][1] = ServerMessageType.Bell
    /\ cfg.extra[3][1] = ServerMessageType.SetColourMapEntries
    /\ PixelAt(0) = cfg.colour \o <<255>>
    /\ captures = 2

\* The messages a client sends up to its n-th capture() when every message of
\* the server reaches it whole, the response to the challenge left out.
WholeOut(n) ==
    LET RECURSIVE requests(_)
        requests(k) ==
            IF k = 0 THEN <<>>
            ELSE <<sendSetPixelFormat(PIXEL_FORMAT_RGBA),
                   sendSetEncodings(<<EncodingType.Raw, EncodingType.CopyRect>>),
                   sendFramebufferUpdateRequest(FALSE, 0, 0, cfg.width, cfg.height)>>
                 \o requests(k - 1)
        type == selectSecurity(cfg.types, options.password).type
    IN  <<clientVersion(cfg.major, cfg.minor)>>
        \o (IF usesSecurity38(cfg.major, cfg.minor) THEN << <<type>> >> ELSE <<>>)
        \o (IF type = SecurityType.VncAuth THEN << <<>> >> ELSE <<>>)
        \o <<ClientInit>> \o requests(n)

\* What is unread of the server's stream when every message reaches the
\* client whole and the server has answered, by the place of the client.
WholeUnread ==
    LET update == sendFramebufferUpdate(0, 0, cfg.width, cfg.height)
    IN  CASE rfbPc = "handshake_version" -> VersionLine(cfg.major, cfg.minor)
          [] rfbPc = "sec38_count" -> <<Len(cfg.types)>> \o cfg.types
          [] rfbPc = "sec38_types" -> cfg.types
          [] rfbPc = "sec33_type" -> setUint32(cfg.types[1])
          [] rfbPc = "vncAuth_challenge" -> Challenge
          [] rfbPc = "sec38_result" -> setUint32(0)
          [] rfbPc = "serverInit_header" -> sendServerInit
          [] rfbPc = "serverInit_name" -> ServerName
          [] rfbPc = "update_header" -> Drop(update, 1)
          [] rfbPc = "rect_header" -> Drop(update, 4)
          [] rfbPc = "rect_raw" -> Drop(update, 16)
          [] OTHER -> <<>>

\* C14: however the transport cuts the server's byte stream into messages,
\* as long as no timeout expires: the client sends the messages it sends when
\* every message arrives whole, holds the same ServerInit and returns the same
\* framebuffer, and it consumes every byte once and in order, so that what is
\* unread is what is unread at that place when messages arrive whole.
C14_AnyPartition ==
    (cfg.mode = "solid" /\ rfbPc # "failed") =>
        LET whole == WholeOut(captures)
        IN  /\ Len(rfbOut) <= Len(whole)
            /\ \A k \in 1..Len(rfbOut) :
                  IF whole[k] = <<>>
                  THEN /\ Len(rfbOut[k]) = 16
                       /\ rfbPc = "sec38_result" =>
                             rfbOut[k] = desEncryptChallenge(Challenge, options.password)
                  ELSE rfbOut[k] = whole[k]
            /\ rfbPc \in {"connected", "captured"} => Len(rfbOut) = Len(whole)
            /\ ~serverInit.isNull =>
                  serverInit = [isNull |-> FALSE, width |-> cfg.width, height |-> cfg.height,
                                pixelFormat |-> PIXEL_FORMAT_RGBA, name |-> ServerName]
            /\ rfbPc = "captured" =>
                  \A i \in 0..(cfg.width * cfg.height - 1) : PixelAt(i) = cfg.colour \o <<255>>
            /\ rfbPc \notin {"new", "wsConnect", "update_type", "colourMap_header",
                              "colourMap_body", "cutText_header", "cutText_body"} =>
                  Unread \in {<<>>, WholeUnread}

C14_Witness ==
    /\ cfg.splits
    /\ rfbPc = "rect_raw"
    /\ Len(receiveBuffer) \in 1..3
    /\ wire # <<>>
    /\ options.password # <<>>
    /\ Len(rfbOut) = Len(WholeOut(1))
    /\ clock.now >= 1

\* C16: a wait for bytes has one deadline, fixed when it starts at the time
\* plus readTimeout: as long as the wait lasts the deadline stays, the timer
\* that ends the wait is due at the deadline whatever part of the bytes has
\* arrived, the time never passes the deadline, and the wait fails with a
\* read timeout at the deadline when fewer than the awaited bytes are there.
C16_OneDeadline ==
    [][/\ loc'.wait.asleep =>
             /\ loc'.wait.timerAt = loc'.wait.deadline
             /\ clock'.now <= loc'.wait.deadline
             /\ loc.wait.asleep => loc'.wait.deadline = loc.wait.deadline
             /\ ~loc.wait.asleep => loc'.wait.deadline = clock.now + options.readTimeout
       /\ (rfbPc # "failed" /\ rfbPc' = "failed" /\ rfbErr' = "Read timeout") =>
             /\ loc.wait.asleep
             /\ clock.now = loc.wait.deadline
             /\ Len(receiveBuffer') < awaited]_vars

C16_Witness ==
    /\ clock.running
    /\ rfbPc = "failed"
    /\ rfbErr = "Read timeout"
    /\ clock.now = options.readTimeout
    /\ rfbOut = <<>>
    /\ Len(receiveBuffer) \in 2..11
    /\ wire # <<>>

\* capture() is inside receiveFramebufferUpdate.
InUpdate ==
    rfbPc \in {"update_type", "update_header", "rect_header", "rect_raw", "rect_copy",
               "colourMap_header", "colourMap_body", "cutText_header", "cutText_body"}

\* C17: capture() fails with a frame timeout whenever no complete
\* FramebufferUpdate has arrived within readTimeout of the request: the time
\* never passes that bound with the capture still pending, and capture() does
\* not return a framebuffer later than the bound.
C17_AsStated ==
    [][/\ InUpdate' => clock'.now <= loc'.deadline
       /\ (InUpdate /\ rfbPc' = "captured") => clock.now <= loc.deadline]_vars

RECURSIVE Packets(_)
\* The packets of a stream of the BMC: each an 8-byte header, with the type
\* at offset 0 and the length of the payload at offset 2, and the payload.
Packets(stream) ==
    IF Len(stream) < 8 \/ Len(stream) < 8 + getUint32LE(stream, 2) THEN <<>>
    ELSE LET size == getUint32LE(stream, 2)
         IN  <<[type |-> getUint16LE(stream, 0), bytes |-> 8 + size,
                payload |-> SubSeq(stream, 9, 8 + size)]>>
             \o Packets(SubSeq(stream, 9 + size, Len(stream)))

\* What the transport has handed to ws.onmessage of what the BMC sent.
Delivered == SubSeq(bout, 1, Len(bout) - Len(Concat(bwire)))

\* C15: however the transport cuts the stream of the BMC into messages, the
\* packets handed to handleMessage are, in order, the packets of the stream
\* delivered so far, by type and payload, a packet as soon as and only when
\* its header and all of its payload are buffered: what is buffered is the
\* rest of the stream after them, which holds no complete packet.
C15_AnyPartition ==
    LET recvs == SelectSeq(cvf.log, LAMBDA e : e.k = "recv")
        packets == Packets(Delivered)
        RECURSIVE Bytes(_)
        Bytes(k) == IF k = 0 THEN 0 ELSE packets[k].bytes + Bytes(k - 1)
    IN  /\ Len(recvs) = Len(packets)
        /\ \A i \in 1..Len(recvs) :
              recvs[i].type = packets[i].type /\ recvs[i].payload = packets[i].payload
        /\ cvf.recvBuf = SubSeq(Delivered, Bytes(Len(packets)) + 1, Len(Delivered))
        /\ Packets(cvf.recvBuf) = <<>>

C15_Witness ==
    /\ bcfg.splits
    /\ Len(cvf.recvBuf) > 8
    /\ bwire # <<>>
    /\ Len(SelectSeq(cvf.log, LAMBDA e : e.k = "recv")) = 4
    /\ cvf.log[Len(cvf.log)].k = "recv"
    /\ cvf.log[Len(cvf.log)].type = IVTP.CMD_VIDEO_PACKETS
    /\ ~cvf.settled

C19_Idempotent ==
    /\ disconnected(disconnected(Transport)) = disconnected(Transport)
    /\ calls.close <= 1

C19_Witness ==
    /\ calls.disconnect = 2
    /\ calls.close = 1
    /\ ws = "null"
    /\ sock = "closing"
    /\ rfbPc = "update_type"

\* C20: whenever captureScreenshot has settled, the WebSocket it created is
\* closed or closing, and so never open afterwards.
C20_AsStated == shot = "settled" => sock \in {"closing", "closed"}

\* C21: under every interleaving of the events of captureVideoFrame the
\* promise settles once: the outcome of the first finish stays whatever
\* happens later, and from the moment it is settled both timers are
\* cancelled and close() has been called on the socket.
C21_SettlesOnce ==
    [][/\ cvf.settled => cvf'.settled /\ cvf'.outcome = cvf.outcome
       /\ cvf'.settled =>
             /\ cvf'.outcome.kind # "pending"
             /\ cvf'.closeCalled
             /\ ~cvf'.timers.connect
             /\ ~cvf'.timers.frame
             /\ bsock' # "open" \/ bsock = "open"
       /\ ~cvf'.settled => cvf'.outcome.kind = "pending"]_vars

C21_Witness ==
    /\ cvf.settled
    /\ cvf.outcome.kind = "rejected"
    /\ cvf.outcome.err = "KVM WebSocket connection timed out"
    /\ bsock = "closed"
    /\ ~cvf.connected

\* C22: GET_FULL_SCREEN is sent once at most however many POWER_STATUS
\* packets arrive, it follows a RESUME_REDIRECTION at once, and a POWER_STATUS
\* packet after the first has no message sent for it.
C22_FullScreenOnce ==
    LET full == createIvtpHeader(IVTP.CMD_GET_FULL_SCREEN, 0, 0)
        resume == createIvtpHeader(IVTP.CMD_RESUME_REDIRECTION, 0, 0)
        n == Len(cvf.log)
    IN  /\ Cardinality({i \in 1..Len(cvf.sent) : cvf.sent[i] = full}) <= 1
        /\ \A i \in 1..Len(cvf.sent) :
              cvf.sent[i] = full => i > 1 /\ cvf.sent[i - 1] = resume
        /\ \A i \in 1..n :
              Sent(i, full) => i > 1 /\ Sent(i - 1, resume)
        /\ \A i \in 1..n, j \in 1..n :
              (j < i /\ Received(j, IVTP.CMD_POWER_STATUS)
                     /\ Received(i, IVTP.CMD_POWER_STATUS)) =>
                 (i = n \/ cvf.log[i + 1].k = "recv")

C22_Witness ==
    /\ bcfg.power = MaxPowerStatus
    /\ Cardinality({i \in 1..Len(cvf.log) : Received(i, IVTP.CMD_POWER_STATUS)})
          = 1 + MaxPowerStatus
    /\ Len(cvf.sent) = 4
    /\ ~cvf.settled

\* No clearDecoderCache was called after event a and before event b.
NoClearBetween(a, b) == \A c \in clears : ~(a < c /\ c < b)

\* C23: after a fetchDecoder call for a host has returned, and until
\* clearDecoderCache is called, every call made later for that host returns
\* the same factory and makes no request, whatever the cookie; a call for
\* another host returns another factory.
C23_AsStated ==
    \A i \in 1..Len(fetches), j \in 1..Len(fetches) :
        (/\ fetches[i].pc = "returned"
         /\ fetches[j].began > fetches[i].ended
         /\ NoClearBetween(fetches[i].ended, fetches[j].began)) =>
            IF fetches[j].host = fetches[i].host
            THEN /\ ~fetches[j].fetched
                 /\ fetches[j].pc = "returned"
                 /\ fetches[j].factory = fetches[i].factory
            ELSE fetches[j].pc = "returned" => fetches[j].factory.id # fetches[i].factory.id

\* C24: after clearDecoderCache() the cache holds no factory for any host,
\* and the first call made after it, for whatever host, makes the request
\* again and returns a factory that no call had returned before the clear.
C24_AsStated ==
    \A c \in clears :
        /\ events = c => \A h \in Hosts : decoderCache[h] = NoFactory
        /\ \A j \in 1..Len(fetches) :
              (/\ fetches[j].began > c
               /\ \A k \in 1..Len(fetches) : ~(c < fetches[k].began /\ k < j)) =>
                  /\ fetches[j].fetched
                  /\ fetches[j].pc = "returned" =>
                        \A i \in 1..Len(fetches) :
                            (fetches[i].pc = "returned" /\ fetches[i].ended < c) =>
                                fetches[j].factory.id # fetches[i].factory.id

\* C25: a call whose request is answered with a status that is not 2xx, or
\* with a source that does not run or whose decoder lacks setImageBuffer or
\* decode, fails, with the status or as a failure to initialize, and leaves
\* the cache as it was; every factory in the cache makes decoders with both
\* methods, and a call that finds no factory for its host makes the request.
C25_FailureKeepsCache ==
    /\ [](\A h \in Hosts :
            decoderCache[h].id # 0 => decoderCache[h].setImageBuffer /\ decoderCache[h].decode)
    /\ [](\A i \in 1..Len(fetches) :
            LET call == fetches[i]
            IN  /\ (call.pc = "returned" /\ call.fetched) =>
                      call.status \in 200..299 /\ call.source = "decoder"
                /\ (call.pc = "failed" /\ call.status = 500) =>
                      call.err = "Failed to fetch decoder"
                /\ (call.pc = "failed" /\ call.status = 200) =>
                      call.err = "Failed to initialize decoder")
    /\ [][/\ \A i \in 1..Len(fetches) :
                (fetches[i].pc # "failed" /\ fetches'[i].pc = "failed") =>
                    decoderCache' = decoderCache
          /\ Len(fetches') > Len(fetches) =>
                LET call == fetches'[Len(fetches')]
                IN  call.fetched <=> decoderCache[call.host].id = 0]_vars

C25_Witness ==
    /\ Len(fetches) = 3
    /\ fetches[1].pc = "failed" /\ fetches[1].status = 500
    /\ fetches[2].pc = "failed" /\ fetches[2].source = "noSetImageBuffer"
    /\ fetches[2].host = fetches[1].host
    /\ fetches[3].host = fetches[1].host
    /\ fetches[3].began > fetches[2].ended
    /\ fetches[3].fetched
    /\ decoderCache[fetches[1].host] = NoFactory

\* -------------------------------------------------------- KVM token claim
\* C26: with captures running concurrently against one BMC, a capture that
\* has obtained its token presents it before any other capture obtains a new
\* one: a token that is held and not yet presented is the BMC's latest, and a
\* presented token was never superseded, so validation does not fail.
C26_AsStated ==
    \A c \in Callers :
        /\ kshot[c].pc = "ws" => kshot[c].session.kvmToken = bmcApi.issued
        /\ kshot[c].err # "KVM session validation failed"

\* ------------------------------------------------- VNC authentication claim
\* Standard DES (FIPS 46-3, ECB, one block) on the keys and blocks used here;
\* the first row of the fourth key is the classic worked example
\* 133457799BBCDFF1 / 0123456789ABCDEF -> 85E813540F0AB405.
StandardDes ==
    {
    [key |-> <<0, 0, 0, 0, 0, 0, 0, 0>>, block |-> <<0, 0, 0, 0, 0, 0, 0, 0>>,
     cipher |-> <<140, 166, 77, 233, 193, 177, 35, 167>>],
    [key |-> <<0, 0, 0, 0, 0, 0, 0, 0>>, block |-> <<1, 35, 69, 103, 137, 171, 205, 239>>,
     cipher |-> <<97, 123, 58, 12, 232, 240, 113, 0>>],
    [key |-> <<0, 0, 0, 0, 0, 0, 0, 0>>, block |-> <<255, 255, 255, 255, 255, 255, 255, 255>>,
     cipher |-> <<53, 85, 80, 178, 21, 14, 36, 81>>],
    [key |-> <<0, 0, 0, 0, 0, 0, 0, 0>>, block |-> <<1, 2, 3, 4, 5, 6, 7, 8>>,
     cipher |-> <<206, 173, 55, 61, 184, 14, 171, 248>>],
    [key |-> <<14, 238, 0, 0, 0, 0, 0, 0>>, block |-> <<0, 0, 0, 0, 0, 0, 0, 0>>,
     cipher |-> <<72, 192, 99, 95, 116, 12, 65, 177>>],
    [key |-> <<14, 238, 0, 0, 0, 0, 0, 0>>, block |-> <<1, 35, 69, 103, 137, 171, 205, 239>>,
     cipher |-> <<217, 238, 207, 212, 182, 239, 171, 19>>],
    [key |-> <<14, 238, 0, 0, 0, 0, 0, 0>>, block |-> <<255, 255, 255, 255, 255, 255, 255, 255>>,
     cipher |-> <<253, 219, 157, 64, 42, 2, 113, 180>>],
    [key |-> <<14, 238, 0, 0, 0, 0, 0, 0>>, block |-> <<1, 2, 3, 4, 5, 6, 7, 8>>,
     cipher |-> <<221, 181, 96, 165, 152, 145, 160, 40>>],
    [key |-> <<14, 134, 206, 206, 238, 246, 78, 38>>, block |-> <<0, 0, 0, 0, 0, 0, 0, 0>>,
     cipher |-> <<255, 151, 80, 46, 148, 34, 240, 137>>],
    [key |-> <<14, 134, 206, 206, 238, 246, 78, 38>>, block |-> <<1, 35, 69, 103, 137, 171, 205, 239>>,
     cipher |-> <<43, 35, 114, 87, 233, 249, 12, 129>>],
    [key |-> <<14, 134, 206, 206, 238, 246, 78, 38>>, block |-> <<255, 255, 255, 255, 255, 255, 255, 255>>,
     cipher |-> <<48, 71, 84, 178, 219, 207, 217, 66>>],
    [key |-> <<14, 134, 206, 206, 238, 246, 78, 38>>, block |-> <<1, 2, 3, 4, 5, 6, 7, 8>>,
     cipher |-> <<171, 210, 99, 149, 198, 251, 54, 175>>],
    [key |-> <<19, 52, 87, 121, 155, 188, 223, 241>>, block |-> <<0, 0, 0, 0, 0, 0, 0, 0>>,
     cipher |-> <<148, 138, 67, 249, 138, 131, 79, 126>>],
    [key |-> <<19, 52, 87, 121, 155, 188, 223, 241>>, block |-> <<1, 35, 69, 103, 137, 171, 205, 239>>,
     cipher |-> <<133, 232, 19, 84, 15, 10, 180, 5>>],
    [key |-> <<19, 52, 87, 121, 155, 188, 223, 241>>, block |-> <<255, 255, 255, 255, 255, 255, 255, 255>>,
     cipher |-> <<90, 61, 179, 4, 214, 73, 36, 253>>],
    [key |-> <<19, 52, 87, 121, 155, 188, 223, 241>>, block |-> <<1, 2, 3, 4, 5, 6, 7, 8>>,
     cipher |-> <<17, 129, 153, 195, 24, 14, 235, 39>>],
    [key |-> <<128, 64, 32, 16, 8, 4, 2, 1>>, block |-> <<0, 0, 0, 0, 0, 0, 0, 0>>,
     cipher |-> <<144, 144, 160, 196, 80, 96, 193, 244>>],
    [key |-> <<128, 64, 32, 16, 8, 4, 2, 1>>, block |-> <<1, 35, 69, 103, 137, 171, 205, 239>>,
     cipher |-> <<15, 112, 121, 207, 186, 55, 109, 103>>],
    [key |-> <<128, 64, 32, 16, 8, 4, 2, 1>>, block |-> <<255, 255, 255, 255, 255, 255, 255, 255>>,
     cipher |-> <<202, 201, 162, 195, 131, 118, 165, 62>>],
    [key |-> <<128, 64, 32, 16, 8, 4, 2, 1>>, block |-> <<1, 2, 3, 4, 5, 6, 7, 8>>,
     cipher |-> <<26, 4, 206, 100, 88, 229, 208, 249>>],
    [key |-> <<255, 0, 0, 0, 0, 0, 0, 0>>, block |-> <<0, 0, 0, 0, 0, 0, 0, 0>>,
     cipher |-> <<237, 56, 30, 50, 84, 54, 120, 153>>],
    [key |-> <<255, 0, 0, 0, 0, 0, 0, 0>>, block |-> <<1, 35, 69, 103, 137, 171, 205, 239>>,
     cipher |-> <<31, 44, 114, 248, 68, 215, 191, 105>>],
    [key |-> <<255, 0, 0, 0, 0, 0, 0, 0>>, block |-> <<255, 255, 255, 255, 255, 255, 255, 255>>,
     cipher |-> <<57, 217, 236, 126, 245, 171, 153, 49>>],
    [key |-> <<255, 0, 0, 0, 0, 0, 0, 0>>, block |-> <<1, 2, 3, 4, 5, 6, 7, 8>>,
     cipher |-> <<123, 134, 175, 32, 125, 234, 182, 134>>]
    }

StandardDesOf(key, block) ==
    (CHOOSE row \in StandardDes : row.key = key /\ row.block = block).cipher

\* The byte whose bit k is bit 7 - k of b.
BitReversed(b) ==
    CHOOSE r \in 0..255 : \A k \in 0..7 : (r \div (2 ^ k)) % 2 = (b \div (2 ^ (7 - k))) % 2

VncKey(password) ==
    [i \in 1..8 |-> IF i <= Len(password) THEN BitReversed(password[i]) ELSE 0]

\* C27: each 8-byte half of the authentication response is the standard DES
\* encryption of the same half of the challenge under the key made of the
\* bit-reversed first 8 password bytes, zero-padded when the password is
\* shorter; so the response matches the reference vectors.
C27_AsStated ==
    desOut # <<>> =>
        /\ Len(desOut) = 16
        /\ SubSeq(desOut, 1, 8)
              = StandardDesOf(VncKey(desIn.password), SubSeq(desIn.challenge, 1, 8))
        /\ SubSeq(desOut, 9, 16)
              = StandardDesOf(VncKey(desIn.password), SubSeq(desIn.challenge, 9, 16))

\* --------------------------------------------------------- OvhProvider claim
Pending(status) == status \in {"doing", "init", "todo"}

\* C28: waitForTask always terminates.  It issues at most pollMaxAttempts
\* task-status requests; it returns at the first status done, fails at the
\* first status cancelled, customerError or ovhError, and fails with a
\* timed-out error when pollMaxAttempts attempts all saw another status;
\* the viewer URL is fetched and the capture started only after it returned
\* on done.
C28_WaitForTask ==
    /\ [](/\ ovh.requests <= pollMaxAttempts
          /\ Len(ovh.seen) <= ovh.requests
          /\ \A k \in 1..(Len(ovh.seen) - 1) : Pending(ovh.seen[k])
          /\ ovh.wait = "done" <=> (ovh.seen # <<>> /\ ovh.seen[Len(ovh.seen)] = "done")
          /\ ovh.wait = "failed" <=>
                (ovh.seen # <<>>
                 /\ ovh.seen[Len(ovh.seen)] \in {"cancelled", "customerError", "ovhError"})
          /\ ovh.wait = "failed" => ovh.pc = "failed" /\ ovh.err = ovh.seen[Len(ovh.seen)]
          /\ ovh.wait = "timedOut" =>
                /\ ovh.pc = "failed" /\ ovh.err = "timed out"
                /\ ovh.requests = pollMaxAttempts /\ Len(ovh.seen) = pollMaxAttempts
                /\ \A k \in 1..Len(ovh.seen) : Pending(ovh.seen[k])
          /\ (/\ Len(ovh.seen) = pollMaxAttempts
              /\ ovh.pc \notin {"poll", "sleep"}
              /\ ovh.wait \notin {"none", "apiError"}
              /\ \A k \in 1..Len(ovh.seen) : Pending(ovh.seen[k]))
                => ovh.wait = "timedOut"
          /\ (ovh.access \/ ovh.capture) => ovh.wait = "done"
          /\ ovh.pc \in {"access", "capture", "returned"} => ovh.wait = "done")
    /\ (ovh.wait = "polling") ~> (ovh.wait \in {"done", "failed", "timedOut", "apiError"})

\* Three attempts, none of which saw the task finished: timed out.
C28_Witness ==
    /\ pollMaxAttempts = MaxPollAttempts
    /\ ovh.wait = "timedOut"
    /\ ovh.requests = MaxPollAttempts
    /\ ovh.seen = [k \in 1..MaxPollAttempts |-> "doing"]
    /\ ~ovh.access /\ ~ovh.capture

\* ------------------------------------------------------ get_screenshot claim
\* C29: with raw true the tool returns the provider's PNG unchanged; with raw
\* false or omitted it returns the image optimizeForLlm makes of it, twice as
\* wide and twice as high; a provider failure gives an error result without
\* an image.
C29_RawOrOptimized ==
    /\ tool.pc = "done" =>
          /\ ~tool.result.isError
          /\ Len(tool.result.content) = 1
          /\ tool.result.content[1].type = "image"
          /\ LET returned == tool.result.content[1].data.base64
                 provided == PngRead(tool.png)
             IN  IF tool.raw
                 THEN returned = tool.png
                 ELSE /\ returned = optimizeForLlm(tool.png)
                      /\ PngRead(returned).width = 2 * provided.width
                      /\ PngRead(returned).height = 2 * provided.height
                      /\ Len(PngRead(returned).data) = 4 * Len(provided.data)
    /\ tool.pc = "failed" =>
          /\ tool.result.isError
          /\ \A k \in 1..Len(tool.result.content) : tool.result.content[k].type # "image"

\* A call without raw on a 2 x 1 image: 4 x 2 comes back, the dark pixel
\* brightened three times and the bright one capped at 255.
C29_Witness ==
    /\ tool.pc = "done" /\ ~tool.raw
    /\ PngRead(tool.png).width = 2 /\ PngRead(tool.png).height = 1
    /\ PngRead(tool.png).data = <<50, 80, 10, 255, 100, 200, 255, 0>>
    /\ LET returned == PngRead(tool.result.content[1].data.base64)
       IN  /\ returned.width = 4 /\ returned.height = 2
           /\ SubSeq(returned.data, 1, 4) = <<150, 240, 30, 255>>
           /\ SubSeq(returned.data, 9, 12) = <<255, 255, 255, 255>>
           /\ SubSeq(returned.data, 17, 20) = <<150, 240, 30, 255>>

\* --------------------------------------------------- RfbClient.capture claim
\* SetPixelFormat for 32-bit little-endian true-colour RGBA; SetEncodings with
\* Raw, then CopyRect; a non-incremental FramebufferUpdateRequest for
\* (0, 0, width, height).
CaptureRequests(width, height) ==
    << <<0, 0, 0, 0, 32, 24, 0, 1, 0, 255, 0, 255, 0, 255, 0, 8, 16, 0, 0, 0>>,
       <<2, 0, 0, 2, 0, 0, 0, 0, 0, 0, 0, 1>>,
       <<3, 0, 0, 0, 0, 0, width \div 256, width % 256, height \div 256, height % 256>> >>

\* C30: a capture() call on a connected client sends exactly three messages,
\* in this order and before it reads anything: SetPixelFormat, SetEncodings,
\* FramebufferUpdateRequest; it sends nothing more while it receives.  When
\* connect() has not succeeded, capture() fails and sends nothing.
C30_ThreeRequests ==
    [][/\ captures' = captures + 1 =>
            /\ ~serverInit.isNull
            /\ receiveBuffer' = receiveBuffer
            /\ IF ws # "null"
               THEN rfbOut' = rfbOut \o CaptureRequests(serverInit.width, serverInit.height)
               ELSE rfbOut' = rfbOut /\ rfbPc' = "failed"
       /\ (captures >= 1 /\ captures' = captures) => rfbOut' = rfbOut
       /\ serverInit.isNull => captures' = captures
       /\ rejected' # rejected =>
            /\ serverInit.isNull
            /\ rejected' = rejected + 1
            /\ rfbOut' = rfbOut /\ receiveBuffer' = receiveBuffer /\ captures' = captures]_vars

\* One capture() was refused before the handshake was over, and one, after
\* it, has sent its three requests and returned.
C30_Witness ==
    /\ rejected = 1
    /\ captures = 1
    /\ rfbPc = "captured"
    /\ Len(rfbOut) >= 3
    /\ SubSeq(rfbOut, Len(rfbOut) - 2, Len(rfbOut))
          = CaptureRequests(serverInit.width, serverInit.height)

\* --------------------------------------------- RfbClient: SecurityResult claims
\* The messages a 3.7 or 3.8 client has sent before ClientInit: its version,
\* its security type and, after VncAuth, the response.
BeforeClientInit38 ==
    IF Len(rfbOut) >= 2 /\ rfbOut[2] = <<SecurityType.VncAuth>> THEN 3 ELSE 2

\* C31: for a server of version 3.7 or higher, a non-zero SecurityResult makes
\* connect() fail with an authentication failure; ClientInit is never sent and
\* no ServerInit is returned.
C31_AuthenticationFailure ==
    /\ [][(/\ rfbPc = "sec38_result"
           /\ rfbPc' # rfbPc
           /\ Len(receiveBuffer) >= 4
           /\ getUint32(Take(receiveBuffer, 4), 0) # 0)
          => (rfbPc' \in {"sec38_failLen", "failed"} /\ rfbOut' = rfbOut)]_vars
    /\ [][(rfbPc \in {"sec38_failLen", "sec38_fail"})
          => (/\ rfbPc' \in {"sec38_failLen", "sec38_fail", "failed"}
              /\ (rfbPc' = "failed" => rfbErr' = "Authentication failed")
              /\ rfbOut' = rfbOut)]_vars
    /\ []((rfbPc \in {"sec38_failLen", "sec38_fail"} \/ rfbErr = "Authentication failed")
          => (serverInit.isNull /\ Len(rfbOut) = BeforeClientInit38))

\* A 3.8 server has rejected the response to its challenge.
C31_Witness ==
    /\ rfbPc = "failed"
    /\ rfbErr = "Authentication failed"
    /\ loc.serverMajor = 3 /\ loc.serverMinor >= 7
    /\ Len(rfbOut) = 3
    /\ rfbOut[2] = <<SecurityType.VncAuth>>
    /\ serverInit.isNull

\* C32: for protocol 3.3 with VNC authentication the client, after its
\* 16-byte response, reads the 4-byte SecurityResult and fails connect() on a
\* non-zero result before it sends ClientInit; so no ClientInit follows a
\* rejected response, and the ServerInit it returns is the one the server
\* sent, parsed from its own first byte.
C32_AsStated ==
    (/\ ~usesSecurity38(cfg.major, cfg.minor)
     /\ loc.types = <<SecurityType.VncAuth>>)
    => (/\ (cfg.authResult # 0 => Len(rfbOut) <= 2)
        /\ (~serverInit.isNull =>
               (serverInit.width = cfg.width /\ serverInit.height = cfg.height)))

\* ------------------------------------------------ RfbClient: wake-up claim
\* C33: a read wait that is pending when enough bytes arrive before its own
\* deadline is woken by that arrival; a timer left over from an earlier wait
\* never takes the wake-up callback away from it.
C33_AsStated ==
    [][(/\ loc.wait.asleep
        /\ clock.now < loc.wait.deadline
        /\ Len(receiveBuffer') > Len(receiveBuffer)
        /\ Len(receiveBuffer') >= awaited)
       => ~loc'.wait.asleep]_vars


\* ------------------------------------------------- captureVideoFrame: the frame
\* What decodeFrameToPng concatenates (line 596): the frame holds the array
\* compressedChunks of captureVideoFrame itself (line 544), so the chunks are
\* those the array has when the frame is decoded.
decodeFrameToPng_compressed == Concat(cvf.compressedChunks)

ValidationAccepted ==
    \E i \in 1..Len(cvf.log) :
        /\ Received(i, IVTP.CMD_VALIDATED_VIDEO_SESSION)
        /\ Len(cvf.log[i].payload) > 0
        /\ cvf.log[i].payload[1] = 1

\* GET_FULL_SCREEN has been sent.
FullScreenAsked ==
    \E i \in 1..Len(cvf.sent) :
        \E o \in {0, IVTP.HDR_SIZE} :
            /\ Len(cvf.sent[i]) >= o + IVTP.HDR_SIZE
            /\ HeaderAt(cvf.sent[i], o).type = IVTP.CMD_GET_FULL_SCREEN

\* C35: the capture resolves with a frame, and GET_FULL_SCREEN is sent, only
\* after VALIDATED_VIDEO_SESSION with result byte 1 was received on the
\* connection: POWER_STATUS and VIDEO_PACKETS received before it lead to neither.
C35_AsStated ==
    /\ cvf.outcome.kind = "resolved" => ValidationAccepted
    /\ FullScreenAsked => ValidationAccepted

\* C36: whatever the BMC sends, captureVideoFrame has settled once more than
\* frameTimeout has passed since its start: until it settles the frame timer
\* stays set, with the deadline it got at the start.
C36_SettlesByDeadline ==
    /\ clock.now > FrameTimeout => cvf.settled
    /\ ~cvf.settled => cvf.timers.frame

\* The frame timer has settled an open connection that packets arrived on.
C36_Witness ==
    /\ clock.now = FrameTimeout
    /\ cvf.connected
    /\ Len(cvf.log) > 2
    /\ cvf.outcome.kind = "rejected"
    /\ cvf.outcome.err = "No complete video frame received"

\* ------------------------------------------- fetchDecoder: concurrent calls
\* No clearDecoderCache was called from the start of call i to that of call j.
SameEpoch(i, j) ==
    \A c \in clears : (fetches[i].began < c) <=> (fetches[j].began < c)

\* C37: of the calls for one host that start with no clearDecoderCache between
\* them and return, at most one has made the request and all return the same
\* factory, overlapping calls that found the cache empty included; and the
\* factory of a request that was in flight when clearDecoderCache ran is not
\* in the cache.
C37_AsStated ==
    /\ \A i \in 1..Len(fetches), j \in 1..Len(fetches) :
          (/\ i # j
           /\ fetches[i].host = fetches[j].host
           /\ fetches[i].pc = "returned"
           /\ fetches[j].pc = "returned"
           /\ SameEpoch(i, j)) =>
              /\ ~(fetches[i].fetched /\ fetches[j].fetched)
              /\ fetches[i].factory = fetches[j].factory
    /\ \A i \in 1..Len(fetches), c \in clears :
          (/\ fetches[i].fetched
           /\ fetches[i].pc = "returned"
           /\ fetches[i].began < c
           /\ c < fetches[i].ended) =>
              decoderCache[fetches[i].host] # fetches[i].factory

\* ------------------------------------------- RfbClient: protocol 3.3 security
\* C38: for a server of protocol 3.3 (or older), ClientInit is sent only when
\* the security type the server announced is None or VncAuth: after any other
\* type the client sends nothing beyond its version and does not go on to
\* ServerInit.
C38_AsStated ==
    (/\ ~usesSecurity38(cfg.major, cfg.minor)
     /\ Len(loc.types) = 1
     /\ loc.types[1] \notin {SecurityType.None, SecurityType.VncAuth})
    => (/\ Len(rfbOut) <= 1
        /\ rfbPc \notin {"serverInit_header", "serverInit_name", "connected"}
        /\ serverInit.isNull)

\* ------------------------------------------------- HTTP entry point claim
\* The sessions that were initialised and whose transport is not closed.
OpenSessions ==
    {http.made[t].sessionId : t \in {u \in 1..Len(http.made) :
                                       http.made[u].sessionId # 0 /\ ~http.made[u].closed}}

\* The request answered in this step.
Answered(method) == http'.last.n = http.n + 1 /\ http'.n = http.n + 1 /\ http'.last.method = method

\* C39: the session map holds a transport exactly for the sessions that were
\* initialised and not closed, each its own; a POST with a session id in the
\* map is given to the transport of that session and makes no transport; a GET
\* or a DELETE without a session id in the map is answered 400 and makes none.
C39_SessionMap ==
    /\ [](\A sid \in 1..(MaxSessions + 1) :
            /\ http.transports[sid] # 0 <=> sid \in OpenSessions
            /\ http.transports[sid] # 0 => http.made[http.transports[sid]].sessionId = sid)
    /\ [][(Answered("POST") /\ existing(http'.last.sessionId) # 0)
          => (/\ http'.last.routed = existing(http'.last.sessionId)
              /\ http'.made = http.made)]_vars
    /\ [][((Answered("GET") \/ Answered("DELETE")) /\ existing(http'.last.sessionId) = 0)
          => (/\ http'.last.status = 400
              /\ http'.last.routed = 0
              /\ http'.made = http.made
              /\ http'.transports = http.transports)]_vars

\* A session was initialised and a DELETE closed it; a GET with its id has
\* been answered 400, while another session is open.
C39_Witness ==
    /\ http.last.method = "GET"
    /\ http.last.sessionId \in 1..MaxSessions
    /\ http.last.status = 400
    /\ \E t \in 1..Len(http.made) :
          http.made[t].sessionId = http.last.sessionId /\ http.made[t].closed
    /\ http.transports[http.last.sessionId] = 0
    /\ OpenSessions # {}

====
